---- MODULE Spec2Model ----
(***************************************************************************)
(* Model of the CloudCode control plane (naiba/cloudcode): the instance    *)
(* Store, the Port Pool, the Reverse Proxy registration map, the container *)
(* engine as seen through docker.Manager, and the HTTP handlers of         *)
(* internal/handler/handler.go that create, delete, start, stop and        *)
(* restart instances.                                                      *)
(*                                                                         *)
(* Every handler runs in its own goroutine.  A handler is modelled as a    *)
(* sequence of steps, one per access to state shared between goroutines    *)
(* (a Store statement, a Port Pool map access, a Reverse Proxy call, a     *)
(* container engine call); the handler's local computation is folded into  *)
(* the step that follows it.  Spec interleaves the steps of the requests   *)
(* freely; SpecSeq runs one request to completion before the next begins.  *)
(*                                                                         *)
(* The container engine and the database are collaborators.  Every engine  *)
(* call may fail for a reason of the engine's own; of the Store's          *)
(* statements the INSERT may fail (its failure has a path of its own in    *)
(* handleCreateInstance), the others take effect.  Instance ids are taken  *)
(* from a counter: uuid.New() is taken never to repeat.                    *)
(***************************************************************************)
EXTENDS Integers, Sequences, FiniteSets, TLC

(* ------------------------------ bounds --------------------------------- *)

\* concurrent request goroutines
MaxReqs == 2
\* instances found persisted when the control plane is started
MaxPersisted == 1
\* instance ids generated by the running control plane (uuid.New(), never
\* reused)
MaxIds == 1
\* container ids generated by the engine for the running control plane
MaxContainers == 1
\* engine or database calls that fail for a reason of their own
MaxFaults == 1
\* requests that begin while another request is still being served
MaxOverlaps == 1
\* runes that precede the first tag and follow it in an upstream body
MaxText == 2
\* lines of a system prompt
MaxLines == 11
\* calls of the watchdog's transform hook in flight at once
MaxCalls == 2
\* segments of a path submitted to the settings endpoints
MaxDepth == 3

(* ------------------------- program constants --------------------------- *)

PortStart == 10000
PortEnd == 10100

StatusOK == 200
StatusCreated == 201
StatusBadRequest == 400
StatusNotFound == 404
StatusConflict == 409
StatusInternalServerError == 500
StatusBadGateway == 502
\* a structural change of this many lines or more is a large change
LargeDiff == 10
\* a temporal line with a residual of at most this many characters is short
ShortResidual == 30
StatusServiceUnavailable == 503

Reqs == 1..MaxReqs
\* the ids 1..MaxPersisted belong to the instances (and their containers) of
\* an earlier run of the control plane, the ids after them are handed out
\* by this run
PersistedIds == 1..MaxPersisted
LastId == MaxPersisted + MaxIds
LastCid == MaxPersisted + MaxContainers
Ids == 1..LastId
Cids == 1..LastCid
Ports == PortStart..PortEnd

\* the form values a client may submit as "name" (sequences of characters)
Space == {" "}
RawNames == {<<>>, <<" ">>, <<"a">>, <<" ", "a">>, <<"a", " ">>, <<"b">>}

(* --------------------------- pure helpers ------------------------------ *)

RECURSIVE TrimLeft(_)
TrimLeft(s) ==
    IF s # <<>> /\ Head(s) \in Space THEN TrimLeft(Tail(s)) ELSE s

RECURSIVE TrimRight(_)
TrimRight(s) ==
    IF s # <<>> /\ s[Len(s)] \in Space
    THEN TrimRight(SubSeq(s, 1, Len(s) - 1))
    ELSE s

\* strings.TrimSpace
TrimSpace(s) == TrimRight(TrimLeft(s))

Min(S) == CHOOSE x \in S : \A y \in S : x <= y

(* ------------------------------ state ---------------------------------- *)

VARIABLES
    store,       \* instances table: id -> row, or NoRow
    used,        \* PortPool.used: the ports marked used
    proxies,     \* ReverseProxy.proxies and .ports: id -> port of the
                 \* strip-prefix handler, 0 when not registered
    direct,      \* ReverseProxy.direct: id -> port of the forward-as-is
                 \* handler, 0 when not registered
    containers,  \* engine: container id -> [inst, state], or NoContainer
    volumes,     \* engine: instance ids whose volume cloudcode-home-{id} exists
    nextId,      \* next instance id uuid.New() yields
    nextCid,     \* next container id the engine yields
    faults,      \* engine or database calls that failed for a reason of their own
    overlaps,    \* requests that began while another was being served
    req,         \* per request goroutine: its position and locals
    returned,    \* the request that returned in the last step, with its locals
    granted,     \* history: ports Allocate returned since their last Release
    regranted,   \* history: ports Allocate returned while already granted
    cookie,      \* browser: the value of the cookie _cc_inst, "" when not set
    visited,     \* history: the id of the entry path visited last, "" if none
    localStorage,\* browser: the storage area of the origin, key -> value
    active,      \* browser: the instance whose page is loaded ("" if none),
                 \* the ID the injected script closes over
    lastHad,     \* history: per instance, the non-shared keys and values of
                 \* the storage area after the last storage call of its page
    lastCall,    \* history: per id, the last of Register and Unregister that
                 \* a user of the Reverse Proxy called ("none" if neither)
    baseline,    \* watchdog: globalPrevFilteredText, model id -> text
    notified,    \* watchdog: notifiedTemporalLines, model id -> signatures
    firstHashMap,\* watchdog: the keys of firstHashMap, <<session id, model id>>
    pending,     \* watchdog: per call of the transform hook in flight, the
                 \* await it is suspended at and its locals
    sent,        \* history: per model id and kind of notice (the Active
                 \* notice, or a line signature), how often it was sent (2
                 \* stands for twice or more)
    tree,        \* configuration manager: what the configuration tree holds
    out          \* what the last call of a component answered

\* the state of the components that the lifecycle handlers do not touch: the
\* browser, the prompt watchdog (which runs inside the containers) and the
\* answer of the last component call
watchdog == <<baseline, notified, firstHashMap, pending, sent>>

aux == <<cookie, visited, lastCall, localStorage, active, lastHad, watchdog,
         tree, out>>

\* the state of the lifecycle handlers, the engine and the database
control == <<store, containers, volumes, nextId, nextCid, faults, overlaps,
             req, returned, granted, regranted>>

vars == <<control, used, proxies, direct, aux>>

NoRow == [ID |-> 0]
NoContainer == [inst |-> 0, state |-> "absent"]

\* store.Instance; ContainerID 0 stands for the empty string
Instance(id, name, cid, status, msg, port) ==
    [ID |-> id, Name |-> name, ContainerID |-> cid, Status |-> status,
     ErrorMsg |-> msg, Port |-> port]

NoInst == Instance(0, <<>>, 0, "", "", 0)

IdleReq ==
    [kind |-> "none", pc |-> "idle", name |-> <<>>, port |-> 0,
     inst |-> NoInst, got |-> NoInst, code |-> 0, frag |-> "none",
     err |-> "", calls |-> <<>>, list |-> <<>>]

NoOut == [op |-> "none"]

\* no call of the transform hook is in flight in this slot
NoCall == [pc |-> "idle"]

\* the path of the instructions file in the containers, as MarshalIndent
\* writes it, and the same path as JSON also allows to spell it
InstructionsPath == "/root/.config/opencode/_cloudcode-instructions.md"
EscapedPath == "\\/root\\/.config\\/opencode\\/_cloudcode-instructions.md"

\* opencode.jsonc as ensureInstruction sees it.  kind tells what the text is:
\* "absent" (no file, or an empty one), "object" (a JSON object once the
\* comments are stripped), "null" (the JSON value null), "array" (another
\* JSON value), "malformed" (no JSON value: a syntax error, or comments
\* stripJSONCComments leaves in place).  field tells what the object holds
\* under "instructions": "absent", "array" or "other" (a value that is no
\* array), and instructions is the array, entry by entry as spelled in the
\* text.  mention tells whether the quoted path also occurs elsewhere in the
\* text (another key, a comment); comments whether the text has comments.
Jsonc(kind, field, instructions, mention, comments) ==
    [kind |-> kind, field |-> field, instructions |-> instructions,
     mention |-> mention, comments |-> comments]

\* the configuration tree after NewManager ran on an empty data directory:
\* opencode.jsonc lists the instructions file, the directory opencode-data
\* exists and holds no auth.json, and no environment overlay was saved
FreshTree ==
    [jsonc |-> Jsonc("object", "array", <<InstructionsPath>>, FALSE, FALSE),
     dataDir |-> TRUE, auth |-> FALSE, envVars |-> <<>>]

\* nothing has happened in the browser or in the watchdog
AuxIdle ==
    /\ cookie = ""
    /\ visited = ""
    /\ lastCall = [i \in Ids |-> "none"]
    /\ localStorage = <<>>
    /\ active = ""
    /\ lastHad = [t \in {ToString(i) : i \in Ids} |-> <<>>]
    /\ baseline = <<>>
    /\ notified = <<>>
    /\ firstHashMap = {}
    /\ pending = [c \in 1..MaxCalls |-> NoCall]
    /\ sent = <<>>
    /\ tree = FreshTree
    /\ out = NoOut

\* no request is being served over an empty database and an idle engine
ControlIdle ==
    /\ store = [i \in Ids |-> NoRow]
    /\ containers = [c \in Cids |-> NoContainer]
    /\ volumes = {}
    /\ nextId = MaxPersisted + 1
    /\ nextCid = MaxPersisted + 1
    /\ faults = 0
    /\ overlaps = 0
    /\ req = [r \in Reqs |-> IdleReq]
    /\ returned = IdleReq
    /\ granted = {}
    /\ regranted = {}

Init ==
    /\ ControlIdle
    /\ used = {}
    /\ proxies = [i \in Ids |-> 0]
    /\ direct = [i \in Ids |-> 0]
    /\ AuxIdle

(* ------------------------------- Store --------------------------------- *)

\* Store.Get: the row of id, NoRow when sql.ErrNoRows
Get(id) == store[id]

\* Store.GetByName: whether a row carries the name
GetByName(name) == \E i \in Ids : store[i] # NoRow /\ store[i].Name = name

\* Store.Create: INSERT; fails on the UNIQUE constraint of column name
CreateFails(inst) == GetByName(inst.Name)
Create(inst) == [store EXCEPT ![inst.ID] = inst]

\* Store.List: every row, ORDER BY created_at DESC (ids are handed out in
\* the order of creation)
RECURSIVE ListFrom(_)
ListFrom(i) ==
    IF i = 0 THEN <<>>
    ELSE IF store[i] = NoRow THEN ListFrom(i - 1)
    ELSE <<store[i]>> \o ListFrom(i - 1)

List == ListFrom(LastId)

\* Store.Update: UPDATE ... WHERE id=?; rewrites every column of the row from
\* the caller's struct, and changes nothing (and reports no error) when no
\* row has the id
Update(inst) ==
    IF store[inst.ID] # NoRow THEN [store EXCEPT ![inst.ID] = inst] ELSE store

\* Store.Delete
Delete(id) == [store EXCEPT ![id] = NoRow]

(* ----------------------------- Port Pool ------------------------------- *)

\* a scan that stops one port short of the end of the range (p < pp.end)
AllocateScanShort ==
    IF (Ports \ {PortEnd}) \ used = {} THEN 0
    ELSE Min((Ports \ {PortEnd}) \ used)

\* the scan of PortPool.Allocate: the first port of the range not marked
\* used, 0 when the whole range is used
AllocateScan ==
    IF Ports \ used = {} THEN 0 ELSE Min(Ports \ used)

\* pp.used[p] = true
MarkUsed(p) == used \cup {p}

\* a Release that frees nothing
ReleaseKeeps(p) == used

\* PortPool.Release
Release(p) == used \ {p}

(* ---------------------------- Reverse Proxy ---------------------------- *)

\* ReverseProxy.Register
Register(id, port) == [proxies EXCEPT ![id] = port]

\* ReverseProxy.Register, the forward-as-is handler: rp.direct[id]
RegisterDirect(id, port) == [direct EXCEPT ![id] = port]

\* ReverseProxy.Unregister
Unregister(id) == [proxies EXCEPT ![id] = 0]

\* an Unregister that leaves the forward-as-is handler in place
UnregisterDirectKeeps(id) == direct

\* ReverseProxy.Unregister: delete(rp.direct, id)
UnregisterDirect(id) == [direct EXCEPT ![id] = 0]

\* ReverseProxy.IsRegistered
IsRegistered(id) == proxies[id] # 0

(* -------------------------- container engine --------------------------- *)

\* The engine is a collaborator: each API call either fails for a reason of
\* its own (fault) or takes effect.  Container names are unique in the
\* engine, so creating a second container named cloudcode-{id} is refused.

ErrEngine == "engine error"
ErrNoSuchContainer == "No such container"
ErrNameInUse == "Conflict. The container name is already in use"

Exists(cid) == containers[cid] # NoContainer
NameInUse(id) == \E c \in Cids : Exists(c) /\ containers[c].inst = id

\* the points at which Manager.CreateContainer can fail:
\* ensureImage, ContainerCreate, ContainerStart followed by a removal that
\* works, ContainerStart followed by a removal that fails too
CreateOutcomes == {"ok", "image", "create", "start", "start_noremove"}

\* Manager.CreateContainer(inst) under outcome o:
\* [cid, err, containers, volumes] after the call
CreateContainer(inst, o) ==
    IF o = "image"
    THEN [cid |-> 0, err |-> "ensure image: " \o ErrEngine,
          containers |-> containers, volumes |-> volumes]
    ELSE IF o = "create"
    THEN [cid |-> 0, err |-> "create container: " \o ErrEngine,
          containers |-> containers, volumes |-> volumes]
    ELSE IF NameInUse(inst.ID)
    THEN [cid |-> 0, err |-> "create container: " \o ErrNameInUse,
          containers |-> containers, volumes |-> volumes]
    ELSE IF o = "start"
    THEN [cid |-> 0, err |-> "start container: " \o ErrEngine,
          containers |-> containers,
          volumes |-> volumes \cup {inst.ID}]
    ELSE IF o = "start_noremove"
    THEN [cid |-> 0, err |-> "start container: " \o ErrEngine,
          containers |-> [containers EXCEPT ![nextCid] =
                             [inst |-> inst.ID, state |-> "created"]],
          volumes |-> volumes \cup {inst.ID}]
    ELSE [cid |-> nextCid, err |-> "",
          containers |-> [containers EXCEPT ![nextCid] =
                             [inst |-> inst.ID, state |-> "running"]],
          volumes |-> volumes \cup {inst.ID}]

\* whether CreateContainer under outcome o leaves a new container behind
CreatesContainer(inst, o) ==
    o \in {"ok", "start_noremove"} /\ ~NameInUse(inst.ID)

\* Manager.StartContainer: [err, containers]
StartContainer(cid, fault) ==
    IF fault THEN [err |-> ErrEngine, containers |-> containers]
    ELSE IF ~Exists(cid)
    THEN [err |-> ErrNoSuchContainer, containers |-> containers]
    ELSE [err |-> "",
          containers |-> [containers EXCEPT ![cid].state = "running"]]

\* Manager.StopContainer: [err, containers]
StopContainer(cid, fault) ==
    IF fault THEN [err |-> ErrEngine, containers |-> containers]
    ELSE IF ~Exists(cid)
    THEN [err |-> ErrNoSuchContainer, containers |-> containers]
    ELSE [err |-> "",
          containers |-> [containers EXCEPT ![cid].state = "exited"]]

\* Manager.RemoveContainer (force): [err, containers, volumes]; the named
\* volume is not touched
RemoveContainer(cid, fault) ==
    IF fault
    THEN [err |-> ErrEngine, containers |-> containers, volumes |-> volumes]
    ELSE IF ~Exists(cid)
    THEN [err |-> ErrNoSuchContainer, containers |-> containers,
          volumes |-> volumes]
    ELSE [err |-> "",
          containers |-> [containers EXCEPT ![cid] = NoContainer],
          volumes |-> volumes]

\* Manager.ContainerStatus: [status, err]; "removed" without an error when
\* the engine knows no such container, otherwise the engine's own word for
\* the state of the container
ContainerStatus(cid, fault) ==
    IF fault THEN [status |-> "unknown", err |-> ErrEngine]
    ELSE IF ~Exists(cid) THEN [status |-> "removed", err |-> ""]
    ELSE [status |-> containers[cid].state, err |-> ""]

(* ------------------------- Handler construction ----------------------- *)

\* a construction that reserves the ports of the running instances only
NewMarkUsedRunning(st) ==
    {st[i].Port : i \in {j \in Ids : st[j] # NoRow /\ st[j].Port > 0
                                       /\ st[j].Status = "running"}}

\* New, the loop over s.List(): h.portPool.MarkUsed(inst.Port) for every
\* instance with inst.Port > 0, starting from the empty pool of NewPortPool
NewMarkUsed(st) ==
    {st[i].Port : i \in {j \in Ids : st[j] # NoRow /\ st[j].Port > 0}}

\* New, the loop over s.List(): rp.Register(inst.ID, inst.Port) for every
\* instance with Status "running" and inst.Port > 0
NewRegister(st) ==
    [i \in Ids |-> IF st[i] # NoRow /\ st[i].Status = "running"
                                    /\ st[i].Port > 0
                   THEN st[i].Port ELSE 0]

\* What an earlier run of the control plane may have left in the database:
\* at most one row per persisted id, without a container (the creation of
\* the container failed, or never came to an end) or with one.
NameOf(i) == [k \in 1..i |-> "a"]
PersistedPorts == PortStart..(PortStart + MaxPersisted)
PersistedRows(i) ==
    {Instance(i, NameOf(i), 0, st, IF st = "error" THEN ErrEngine ELSE "", p) :
        st \in {"created", "error"}, p \in PersistedPorts}
    \cup
    {Instance(i, NameOf(i), i, st, IF st = "error" THEN ErrEngine ELSE "", p) :
        st \in {"running", "stopped", "error"}, p \in PersistedPorts}

PersistedStores ==
    LET rows == UNION {PersistedRows(i) : i \in PersistedIds} \cup {NoRow}
        kept == {f \in [PersistedIds -> rows] :
                    \A i \in PersistedIds : f[i] = NoRow \/ f[i].ID = i}
    IN  {[i \in Ids |-> IF i \in PersistedIds THEN f[i] ELSE NoRow] :
            f \in kept}

\* the containers of the persisted instances, which the control plane does
\* not touch when it starts
PersistedContainers(st) ==
    [c \in Cids |->
        IF c \in PersistedIds /\ st[c] # NoRow /\ st[c].ContainerID = c
        THEN [inst |-> c,
              state |-> IF st[c].Status = "running" THEN "running"
                        ELSE "exited"]
        ELSE NoContainer]

\* the state after main has built the Handler over a persisted database
InitPersisted ==
    /\ store \in PersistedStores
    /\ used = NewMarkUsed(store)
    /\ proxies = NewRegister(store)
    /\ direct = NewRegister(store)
    /\ containers = PersistedContainers(store)
    /\ volumes = {i \in PersistedIds :
                     store[i] # NoRow /\ store[i].ContainerID # 0}
    /\ nextId = MaxPersisted + 1
    /\ nextCid = MaxPersisted + 1
    /\ faults = 0
    /\ overlaps = 0
    /\ req = [r \in Reqs |-> IdleReq]
    /\ returned = IdleReq
    /\ granted = {}
    /\ regranted = {}
    /\ AuxIdle

(* --------------------------- request plumbing -------------------------- *)

\* a goroutine is free to take a new request
Free(r) == req[r].pc = "idle"

\* the server hands a new request to the first free goroutine
Admit(r) ==
    /\ Free(r)
    /\ \A q \in Reqs : q < r => ~Free(q)
    /\ LET busy == \E q \in Reqs : ~Free(q)
       IN  /\ busy => overlaps < MaxOverlaps
           /\ overlaps' = IF busy THEN overlaps + 1 ELSE overlaps

At(r, kind, pc) == req[r].kind = kind /\ req[r].pc = pc

\* the goroutine moves on; when its handler has returned, the goroutine is
\* free again and the request is the one that returned in this step
SetReq(r, rec) ==
    IF rec.pc = "done"
    THEN /\ req' = [req EXCEPT ![r] = IdleReq]
         /\ returned' = rec
    ELSE /\ req' = [req EXCEPT ![r] = rec]
         /\ returned' = IdleReq

\* the handler returns with a status code and a kind of body
Respond(rec, code, frag) ==
    [rec EXCEPT !.pc = "done", !.code = code, !.frag = frag]

\* history: the engine calls the request made, each with the container id
\* it was given or it returned, its error text ("" when it succeeded) and
\* whether it failed for a reason of the engine's own; the handlers that
\* re-read the status of a container also note the Store.Update they make
Call(rec, op, cid, err, fault) ==
    [rec EXCEPT !.calls = Append(@, [op |-> op, cid |-> cid, err |-> err,
                                     fault |-> fault])]

NewReq(kind) == [IdleReq EXCEPT !.kind = kind]

\* the call of this step fails for a reason of its own, or does not
Inject(fault) ==
    /\ fault => faults < MaxFaults
    /\ faults' = IF fault THEN faults + 1 ELSE faults

(* ------------------------- handleCreateInstance ------------------------ *)

\* ParseForm, TrimSpace, the empty-name check and the GetByName pre-check
CreateBegin(r, raw) ==
    /\ Admit(r)
    /\ nextId <= LastId \/ TrimSpace(raw) = <<>> \/ GetByName(TrimSpace(raw))
    /\ LET name == TrimSpace(raw)
           rec == [NewReq("create") EXCEPT !.name = name]
       IN  IF name = <<>>
           THEN SetReq(r, Respond(rec, StatusBadRequest, "text"))
           ELSE IF GetByName(name)
           THEN SetReq(r, Respond(rec, StatusConflict, "text"))
           ELSE SetReq(r, [rec EXCEPT !.pc = "c_scan"])
    /\ UNCHANGED <<aux, faults, store, used, proxies, direct, containers, volumes, nextId,
                   nextCid, granted, regranted>>

\* PortPool.Allocate, the read of the map: for p := start.. if !pp.used[p].
\* The map is read here and written in the next step with no lock held, so
\* the Allocate and Release calls of other goroutines may come in between.
CreateAllocScan(r) ==
    /\ At(r, "create", "c_scan")
    /\ LET p == AllocateScan
       IN  IF p = 0
           THEN SetReq(r, Respond(req[r], StatusServiceUnavailable, "text"))
           ELSE SetReq(r, [req[r] EXCEPT !.port = p, !.pc = "c_mark"])
    /\ UNCHANGED <<aux, overlaps, faults, store, used, proxies, direct, containers,
                   volumes, nextId, nextCid, granted, regranted>>

\* PortPool.Allocate, the write of the map and the return of the port
CreateAllocMark(r) ==
    /\ At(r, "create", "c_mark")
    /\ used' = MarkUsed(req[r].port)
    /\ granted' = granted \cup {req[r].port}
    /\ regranted' = regranted \cup ({req[r].port} \cap granted)
    /\ SetReq(r, [req[r] EXCEPT !.pc = "c_insert"])
    /\ UNCHANGED <<aux, overlaps, faults, store, proxies, direct, containers, volumes,
                   nextId, nextCid>>

\* inst := &store.Instance{...}; h.store.Create(inst); the INSERT fails on
\* the UNIQUE constraint, or for a reason of the database's own (fault)
CreateInsert(r, fault) ==
    /\ At(r, "create", "c_insert")
    /\ nextId <= LastId \/ GetByName(req[r].name)
    /\ Inject(fault)
    /\ LET inst == Instance(nextId, req[r].name, 0, "created", "", req[r].port)
       IN  IF fault \/ CreateFails(inst)
           THEN /\ SetReq(r, [req[r] EXCEPT !.inst = inst, !.pc = "c_release"])
                /\ UNCHANGED <<store, nextId>>
           ELSE /\ store' = Create(inst)
                /\ nextId' = nextId + 1
                /\ SetReq(r, [req[r] EXCEPT !.inst = inst, !.got = inst,
                                            !.pc = "c_container"])
    /\ UNCHANGED <<aux, overlaps, used, proxies, direct, containers, volumes, nextCid,
                   granted, regranted>>

\* the failure path of h.store.Create: h.portPool.Release(port), 500
CreateRelease(r) ==
    /\ At(r, "create", "c_release")
    /\ used' = Release(req[r].port)
    /\ granted' = granted \ {req[r].port}
    /\ SetReq(r, Respond(req[r], StatusInternalServerError, "text"))
    /\ UNCHANGED <<aux, overlaps, faults, store, proxies, direct, containers, volumes,
                   nextId, nextCid, regranted>>

\* h.docker.CreateContainer(ctx, inst), then the assignments to inst
CreateEngine(r, o) ==
    /\ Inject(o # "ok")
    /\ At(r, "create", "c_container")
    /\ CreatesContainer(req[r].inst, o) => nextCid <= LastCid
    /\ LET res == CreateContainer(req[r].inst, o)
           rec == Call(req[r], "CreateContainer", res.cid, res.err, o # "ok")
       IN  /\ containers' = res.containers
           /\ volumes' = res.volumes
           /\ nextCid' = IF CreatesContainer(req[r].inst, o)
                         THEN nextCid + 1 ELSE nextCid
           /\ IF res.err # ""
              THEN SetReq(r, [rec EXCEPT !.err = res.err,
                                         !.inst.Status = "error",
                                         !.inst.ErrorMsg = res.err,
                                         !.pc = "c_update_err"])
              ELSE SetReq(r, [rec EXCEPT !.inst.ContainerID = res.cid,
                                         !.inst.Status = "running",
                                         !.pc = "c_update_ok"])
    /\ UNCHANGED <<aux, overlaps, store, used, proxies, direct, nextId, granted, regranted>>

\* _ = h.store.Update(inst) after a failed creation; 201 with HX-Redirect
CreateUpdateErr(r) ==
    /\ At(r, "create", "c_update_err")
    /\ store' = Update(req[r].inst)
    /\ SetReq(r, Respond(req[r], StatusCreated, "redirect"))
    /\ UNCHANGED <<aux, overlaps, faults, used, proxies, direct, containers, volumes,
                   nextId, nextCid, granted, regranted>>

\* a create that forgets to persist the running record
CreateUpdateOkSkipsStore(r) ==
    /\ At(r, "create", "c_update_ok")
    /\ SetReq(r, [req[r] EXCEPT !.pc = "c_register"])
    /\ UNCHANGED <<aux, overlaps, faults, store, used, proxies, direct, containers,
                   volumes, nextId, nextCid, granted, regranted>>

\* _ = h.store.Update(inst) after a successful creation
CreateUpdateOk(r) ==
    /\ At(r, "create", "c_update_ok")
    /\ store' = Update(req[r].inst)
    /\ SetReq(r, [req[r] EXCEPT !.pc = "c_register"])
    /\ UNCHANGED <<aux, overlaps, faults, used, proxies, direct, containers, volumes,
                   nextId, nextCid, granted, regranted>>

\* h.proxy.Register(inst.ID, inst.Port); 201 with HX-Redirect
CreateRegister(r) ==
    /\ At(r, "create", "c_register")
    /\ proxies' = Register(req[r].inst.ID, req[r].inst.Port)
    /\ direct' = RegisterDirect(req[r].inst.ID, req[r].inst.Port)
    /\ SetReq(r, Respond(req[r], StatusCreated, "redirect"))
    /\ UNCHANGED <<aux, overlaps, faults, store, used, containers, volumes, nextId,
                   nextCid, granted, regranted>>

handleCreateInstance(r) ==
    \/ \E raw \in RawNames : CreateBegin(r, raw)
    \/ CreateAllocScan(r)
    \/ CreateAllocMark(r)
    \/ \E fault \in BOOLEAN : CreateInsert(r, fault)
    \/ CreateRelease(r)
    \/ \E o \in CreateOutcomes : CreateEngine(r, o)
    \/ CreateUpdateErr(r)
    \/ CreateUpdateOk(r)
    \/ CreateRegister(r)

(* ------------------------- handleDeleteInstance ------------------------ *)

\* inst, err := h.store.Get(id)
DeleteBegin(r, id) ==
    /\ Admit(r)
    /\ LET rec == NewReq("delete")
           row == Get(id)
       IN  IF row = NoRow
           THEN SetReq(r, Respond([rec EXCEPT !.inst.ID = id],
                                  StatusNotFound, "text"))
           ELSE SetReq(r, [rec EXCEPT !.inst = row, !.got = row,
                               !.pc = IF row.ContainerID # 0
                                      THEN "d_remove" ELSE "d_unregister"])
    /\ UNCHANGED <<aux, faults, store, used, proxies, direct, containers, volumes, nextId,
                   nextCid, granted, regranted>>

\* h.docker.RemoveContainer(ctx, inst.ContainerID); a failure is only logged
DeleteRemove(r, fault) ==
    /\ Inject(fault)
    /\ At(r, "delete", "d_remove")
    /\ LET res == RemoveContainer(req[r].inst.ContainerID, fault)
           rec == Call(req[r], "RemoveContainer", req[r].inst.ContainerID,
                       res.err, fault)
       IN  /\ containers' = res.containers
           /\ volumes' = res.volumes
           /\ SetReq(r, [rec EXCEPT !.pc = "d_unregister"])
    /\ UNCHANGED <<aux, overlaps, store, used, proxies, direct, nextId, nextCid, granted,
                   regranted>>

\* h.proxy.Unregister(id)
DeleteUnregister(r) ==
    /\ At(r, "delete", "d_unregister")
    /\ proxies' = Unregister(req[r].inst.ID)
    /\ direct' = UnregisterDirect(req[r].inst.ID)
    /\ SetReq(r, [req[r] EXCEPT !.pc = "d_release"])
    /\ UNCHANGED <<aux, overlaps, faults, store, used, containers, volumes, nextId,
                   nextCid, granted, regranted>>

\* h.portPool.Release(inst.Port)
DeleteRelease(r) ==
    /\ At(r, "delete", "d_release")
    /\ used' = Release(req[r].inst.Port)
    /\ granted' = granted \ {req[r].inst.Port}
    /\ SetReq(r, [req[r] EXCEPT !.pc = "d_delete"])
    /\ UNCHANGED <<aux, overlaps, faults, store, proxies, direct, containers, volumes,
                   nextId, nextCid, regranted>>

\* h.store.Delete(id): when the database fails the statement, 500 and the
\* row stays; otherwise 200 with HX-Redirect or HX-Trigger
DeleteRow(r, fault) ==
    /\ Inject(fault)
    /\ At(r, "delete", "d_delete")
    /\ IF fault
       THEN /\ UNCHANGED store
            /\ SetReq(r, Respond(req[r], StatusInternalServerError, "text"))
       ELSE /\ store' = Delete(req[r].inst.ID)
            /\ SetReq(r, Respond(req[r], StatusOK, "redirect"))
    /\ UNCHANGED <<aux, overlaps, used, proxies, direct, containers, volumes,
                   nextId, nextCid, granted, regranted>>

handleDeleteInstance(r) ==
    \/ \E id \in Ids : DeleteBegin(r, id)
    \/ \E fault \in BOOLEAN : DeleteRemove(r, fault)
    \/ DeleteUnregister(r)
    \/ DeleteRelease(r)
    \/ \E fault \in BOOLEAN : DeleteRow(r, fault)

(* ------------------------- handleStartInstance ------------------------- *)

\* inst, err := h.store.Get(id)
StartBegin(r, id) ==
    /\ Admit(r)
    /\ LET rec == NewReq("start")
           row == Get(id)
       IN  IF row = NoRow
           THEN SetReq(r, Respond([rec EXCEPT !.inst.ID = id],
                                  StatusNotFound, "text"))
           ELSE SetReq(r, [rec EXCEPT !.inst = row, !.got = row,
                               !.pc = IF row.ContainerID = 0
                                      THEN "s_create" ELSE "s_start"])
    /\ UNCHANGED <<aux, faults, store, used, proxies, direct, containers, volumes, nextId,
                   nextCid, granted, regranted>>

\* inst.ContainerID == "": h.docker.CreateContainer(ctx, inst)
StartCreate(r, o) ==
    /\ Inject(o # "ok")
    /\ At(r, "start", "s_create")
    /\ CreatesContainer(req[r].inst, o) => nextCid <= LastCid
    /\ LET res == CreateContainer(req[r].inst, o)
           rec == Call(req[r], "CreateContainer", res.cid, res.err, o # "ok")
       IN  /\ containers' = res.containers
           /\ volumes' = res.volumes
           /\ nextCid' = IF CreatesContainer(req[r].inst, o)
                         THEN nextCid + 1 ELSE nextCid
           /\ IF res.err # ""
              THEN SetReq(r, [rec EXCEPT
                      !.err = "Failed to create container: " \o res.err,
                      !.inst.Status = "error",
                      !.inst.ErrorMsg = res.err,
                      !.pc = "s_update_err"])
              ELSE SetReq(r, [rec EXCEPT !.inst.ContainerID = res.cid,
                                         !.pc = "s_update_ok"])
    /\ UNCHANGED <<aux, overlaps, store, used, proxies, direct, nextId, granted, regranted>>

\* otherwise: h.docker.StartContainer(ctx, inst.ContainerID)
StartEngine(r, fault) ==
    /\ Inject(fault)
    /\ At(r, "start", "s_start")
    /\ LET res == StartContainer(req[r].inst.ContainerID, fault)
           rec == Call(req[r], "StartContainer", req[r].inst.ContainerID,
                       res.err, fault)
       IN  /\ containers' = res.containers
           /\ IF res.err # ""
              THEN SetReq(r, [rec EXCEPT
                      !.err = "Failed to start container: " \o res.err,
                      !.inst.Status = "error",
                      !.inst.ErrorMsg = res.err,
                      !.pc = "s_update_err"])
              ELSE SetReq(r, [rec EXCEPT !.pc = "s_update_ok"])
    /\ UNCHANGED <<aux, overlaps, store, used, proxies, direct, volumes, nextId, nextCid,
                   granted, regranted>>

\* _ = h.store.Update(inst); respondError
StartUpdateErr(r) ==
    /\ At(r, "start", "s_update_err")
    /\ store' = Update(req[r].inst)
    /\ SetReq(r, Respond(req[r], StatusOK, "error"))
    /\ UNCHANGED <<aux, overlaps, faults, used, proxies, direct, containers, volumes,
                   nextId, nextCid, granted, regranted>>

\* a start that leaves the last failure text on the record
StartUpdateOkKeepsMsg(r) ==
    /\ At(r, "start", "s_update_ok")
    /\ LET rec == [req[r] EXCEPT !.inst.Status = "running"]
       IN  /\ store' = Update(rec.inst)
           /\ SetReq(r, [rec EXCEPT !.pc = "s_register"])
    /\ UNCHANGED <<aux, overlaps, faults, used, proxies, direct, containers, volumes,
                   nextId, nextCid, granted, regranted>>

\* inst.Status = "running"; inst.ErrorMsg = ""; _ = h.store.Update(inst)
StartUpdateOk(r) ==
    /\ At(r, "start", "s_update_ok")
    /\ LET rec == [req[r] EXCEPT !.inst.Status = "running",
                                 !.inst.ErrorMsg = ""]
       IN  /\ store' = Update(rec.inst)
           /\ SetReq(r, [rec EXCEPT !.pc = "s_register"])
    /\ UNCHANGED <<aux, overlaps, faults, used, proxies, direct, containers, volumes,
                   nextId, nextCid, granted, regranted>>

\* _ = h.proxy.Register(inst.ID, inst.Port); renderPartial
StartRegister(r) ==
    /\ At(r, "start", "s_register")
    /\ proxies' = Register(req[r].inst.ID, req[r].inst.Port)
    /\ direct' = RegisterDirect(req[r].inst.ID, req[r].inst.Port)
    /\ SetReq(r, Respond(req[r], StatusOK, "row"))
    /\ UNCHANGED <<aux, overlaps, faults, store, used, containers, volumes, nextId,
                   nextCid, granted, regranted>>

handleStartInstance(r) ==
    \/ \E id \in Ids : StartBegin(r, id)
    \/ \E o \in CreateOutcomes : StartCreate(r, o)
    \/ \E fault \in BOOLEAN : StartEngine(r, fault)
    \/ StartUpdateErr(r)
    \/ StartUpdateOk(r)
    \/ StartRegister(r)

(* -------------------------- handleStopInstance ------------------------- *)

\* inst, err := h.store.Get(id)
StopBegin(r, id) ==
    /\ Admit(r)
    /\ LET rec == NewReq("stop")
           row == Get(id)
       IN  IF row = NoRow
           THEN SetReq(r, Respond([rec EXCEPT !.inst.ID = id],
                                  StatusNotFound, "text"))
           ELSE SetReq(r, [rec EXCEPT !.inst = row, !.got = row,
                               !.pc = IF row.ContainerID # 0
                                      THEN "t_stop" ELSE "t_update"])
    /\ UNCHANGED <<aux, faults, store, used, proxies, direct, containers, volumes, nextId,
                   nextCid, granted, regranted>>

\* h.docker.StopContainer(ctx, inst.ContainerID); on failure respondError
\* and return
StopEngine(r, fault) ==
    /\ Inject(fault)
    /\ At(r, "stop", "t_stop")
    /\ LET res == StopContainer(req[r].inst.ContainerID, fault)
           rec == Call(req[r], "StopContainer", req[r].inst.ContainerID,
                       res.err, fault)
       IN  /\ containers' = res.containers
           /\ IF res.err # ""
              THEN SetReq(r, Respond(
                      [rec EXCEPT
                         !.err = "Failed to stop container: " \o res.err],
                      StatusOK, "error"))
              ELSE SetReq(r, [rec EXCEPT !.pc = "t_update"])
    /\ UNCHANGED <<aux, overlaps, store, used, proxies, direct, volumes, nextId, nextCid,
                   granted, regranted>>

\* a stop that forgets the container it stopped
StopUpdateDropsContainer(r) ==
    /\ At(r, "stop", "t_update")
    /\ LET rec == [req[r] EXCEPT !.inst.Status = "stopped",
                                 !.inst.ContainerID = 0]
       IN  /\ store' = Update(rec.inst)
           /\ SetReq(r, [rec EXCEPT !.pc = "t_unregister"])
    /\ UNCHANGED <<aux, overlaps, faults, used, proxies, direct, containers, volumes,
                   nextId, nextCid, granted, regranted>>

\* inst.Status = "stopped"; _ = h.store.Update(inst)
StopUpdate(r) ==
    /\ At(r, "stop", "t_update")
    /\ LET rec == [req[r] EXCEPT !.inst.Status = "stopped"]
       IN  /\ store' = Update(rec.inst)
           /\ SetReq(r, [rec EXCEPT !.pc = "t_unregister"])
    /\ UNCHANGED <<aux, overlaps, faults, used, proxies, direct, containers, volumes,
                   nextId, nextCid, granted, regranted>>

\* h.proxy.Unregister(id); renderPartial
StopUnregister(r) ==
    /\ At(r, "stop", "t_unregister")
    /\ proxies' = Unregister(req[r].inst.ID)
    /\ direct' = UnregisterDirect(req[r].inst.ID)
    /\ SetReq(r, Respond(req[r], StatusOK, "row"))
    /\ UNCHANGED <<aux, overlaps, faults, store, used, containers, volumes, nextId,
                   nextCid, granted, regranted>>

handleStopInstance(r) ==
    \/ \E id \in Ids : StopBegin(r, id)
    \/ \E fault \in BOOLEAN : StopEngine(r, fault)
    \/ StopUpdate(r)
    \/ StopUnregister(r)

(* ------------------------ handleRestartInstance ------------------------ *)

\* inst, err := h.store.Get(id)
RestartBegin(r, id) ==
    /\ Admit(r)
    /\ LET rec == NewReq("restart")
           row == Get(id)
       IN  IF row = NoRow
           THEN SetReq(r, Respond([rec EXCEPT !.inst.ID = id],
                                  StatusNotFound, "text"))
           ELSE SetReq(r, [rec EXCEPT !.inst = row, !.got = row,
                               !.pc = IF row.ContainerID # 0
                                      THEN "r_stop" ELSE "r_update"])
    /\ UNCHANGED <<aux, faults, store, used, proxies, direct, containers, volumes, nextId,
                   nextCid, granted, regranted>>

\* a restart that gives up when its stop step fails
RestartStopSurfaces(r, fault) ==
    /\ Inject(fault)
    /\ At(r, "restart", "r_stop")
    /\ LET res == StopContainer(req[r].inst.ContainerID, fault)
           rec == Call(req[r], "StopContainer", req[r].inst.ContainerID,
                       res.err, fault)
       IN  /\ containers' = res.containers
           /\ IF res.err # ""
              THEN SetReq(r, Respond(
                      [rec EXCEPT
                         !.err = "Failed to restart container: " \o res.err],
                      StatusOK, "error"))
              ELSE SetReq(r, [rec EXCEPT !.pc = "r_start"])
    /\ UNCHANGED <<aux, overlaps, store, used, proxies, direct, volumes, nextId, nextCid,
                   granted, regranted>>

\* _ = h.docker.StopContainer(ctx, inst.ContainerID)
RestartStop(r, fault) ==
    /\ Inject(fault)
    /\ At(r, "restart", "r_stop")
    /\ LET res == StopContainer(req[r].inst.ContainerID, fault)
           rec == Call(req[r], "StopContainer", req[r].inst.ContainerID,
                       res.err, fault)
       IN  /\ containers' = res.containers
           /\ SetReq(r, [rec EXCEPT !.pc = "r_start"])
    /\ UNCHANGED <<aux, overlaps, store, used, proxies, direct, volumes, nextId, nextCid,
                   granted, regranted>>

\* h.docker.StartContainer(ctx, inst.ContainerID); on failure respondError
\* and return
RestartStart(r, fault) ==
    /\ Inject(fault)
    /\ At(r, "restart", "r_start")
    /\ LET res == StartContainer(req[r].inst.ContainerID, fault)
           rec == Call(req[r], "StartContainer", req[r].inst.ContainerID,
                       res.err, fault)
       IN  /\ containers' = res.containers
           /\ IF res.err # ""
              THEN SetReq(r, Respond(
                      [rec EXCEPT
                         !.err = "Failed to restart container: " \o res.err],
                      StatusOK, "error"))
              ELSE SetReq(r, [rec EXCEPT !.pc = "r_update"])
    /\ UNCHANGED <<aux, overlaps, store, used, proxies, direct, volumes, nextId, nextCid,
                   granted, regranted>>

\* inst.Status = "running"; _ = h.store.Update(inst)
RestartUpdate(r) ==
    /\ At(r, "restart", "r_update")
    /\ LET rec == [req[r] EXCEPT !.inst.Status = "running"]
       IN  /\ store' = Update(rec.inst)
           /\ SetReq(r, [rec EXCEPT !.pc = "r_register"])
    /\ UNCHANGED <<aux, overlaps, faults, used, proxies, direct, containers, volumes,
                   nextId, nextCid, granted, regranted>>

\* _ = h.proxy.Register(inst.ID, inst.Port); renderPartial
RestartRegister(r) ==
    /\ At(r, "restart", "r_register")
    /\ proxies' = Register(req[r].inst.ID, req[r].inst.Port)
    /\ direct' = RegisterDirect(req[r].inst.ID, req[r].inst.Port)
    /\ SetReq(r, Respond(req[r], StatusOK, "row"))
    /\ UNCHANGED <<aux, overlaps, faults, store, used, containers, volumes, nextId,
                   nextCid, granted, regranted>>

handleRestartInstance(r) ==
    \/ \E id \in Ids : RestartBegin(r, id)
    \/ \E fault \in BOOLEAN : RestartStop(r, fault)
    \/ \E fault \in BOOLEAN : RestartStart(r, fault)
    \/ RestartUpdate(r)
    \/ RestartRegister(r)

(* ------------------------- handleInstanceStatus ------------------------ *)

\* inst, err := h.store.Get(id)
StatusBegin(r, id) ==
    /\ Admit(r)
    /\ LET rec == NewReq("status")
           row == Get(id)
       IN  IF row = NoRow
           THEN SetReq(r, Respond([rec EXCEPT !.inst.ID = id],
                                  StatusNotFound, "text"))
           ELSE IF row.ContainerID = 0
           THEN SetReq(r, Respond([rec EXCEPT !.inst = row, !.got = row],
                                  StatusOK, "json"))
           ELSE SetReq(r, [rec EXCEPT !.inst = row, !.got = row,
                                      !.pc = "q_inspect"])
    /\ UNCHANGED <<aux, faults, store, used, proxies, direct, containers, volumes, nextId,
                   nextCid, granted, regranted>>

\* h.docker.ContainerStatus(ctx, inst.ContainerID); err == nil and
\* status != inst.Status: inst.Status = status
StatusInspect(r, fault) ==
    /\ Inject(fault)
    /\ At(r, "status", "q_inspect")
    /\ LET res == ContainerStatus(req[r].inst.ContainerID, fault)
           rec == Call(req[r], "ContainerStatus", req[r].inst.ContainerID,
                       res.err, fault)
       IN  IF res.err = "" /\ res.status # req[r].inst.Status
           THEN SetReq(r, [rec EXCEPT !.inst.Status = res.status,
                                      !.pc = "q_update"])
           ELSE SetReq(r, Respond(rec, StatusOK, "json"))
    /\ UNCHANGED <<aux, overlaps, store, used, proxies, direct, containers, volumes,
                   nextId, nextCid, granted, regranted>>

\* _ = h.store.Update(inst); the JSON body carries inst.Status
StatusUpdate(r) ==
    /\ At(r, "status", "q_update")
    /\ store' = Update(req[r].inst)
    /\ SetReq(r, Respond(Call(req[r], "Update", req[r].inst.ContainerID, "",
                              FALSE), StatusOK, "json"))
    /\ UNCHANGED <<aux, overlaps, faults, used, proxies, direct, containers, volumes,
                   nextId, nextCid, granted, regranted>>

handleInstanceStatus(r) ==
    \/ \E id \in Ids : StatusBegin(r, id)
    \/ \E fault \in BOOLEAN : StatusInspect(r, fault)
    \/ StatusUpdate(r)

(* -------------------------- handleGetInstance -------------------------- *)

\* inst, err := h.store.Get(id)
GetBegin(r, id) ==
    /\ Admit(r)
    /\ LET rec == NewReq("get")
           row == Get(id)
       IN  IF row = NoRow
           THEN SetReq(r, Respond([rec EXCEPT !.inst.ID = id],
                                  StatusNotFound, "text"))
           ELSE IF row.ContainerID = 0
           THEN SetReq(r, Respond([rec EXCEPT !.inst = row, !.got = row],
                                  StatusOK, "page"))
           ELSE SetReq(r, [rec EXCEPT !.inst = row, !.got = row,
                                      !.pc = "g_inspect"])
    /\ UNCHANGED <<aux, faults, store, used, proxies, direct, containers, volumes, nextId,
                   nextCid, granted, regranted>>

\* h.docker.ContainerStatus(ctx, inst.ContainerID); err == nil:
\* inst.Status = status
GetInspect(r, fault) ==
    /\ Inject(fault)
    /\ At(r, "get", "g_inspect")
    /\ LET res == ContainerStatus(req[r].inst.ContainerID, fault)
           rec == Call(req[r], "ContainerStatus", req[r].inst.ContainerID,
                       res.err, fault)
       IN  IF res.err = ""
           THEN SetReq(r, [rec EXCEPT !.inst.Status = res.status,
                                      !.pc = "g_update"])
           ELSE SetReq(r, Respond(rec, StatusOK, "page"))
    /\ UNCHANGED <<aux, overlaps, store, used, proxies, direct, containers, volumes,
                   nextId, nextCid, granted, regranted>>

\* _ = h.store.Update(inst); render instance_detail
GetUpdate(r) ==
    /\ At(r, "get", "g_update")
    /\ store' = Update(req[r].inst)
    /\ SetReq(r, Respond(Call(req[r], "Update", req[r].inst.ContainerID, "",
                              FALSE), StatusOK, "page"))
    /\ UNCHANGED <<aux, overlaps, faults, used, proxies, direct, containers, volumes,
                   nextId, nextCid, granted, regranted>>

handleGetInstance(r) ==
    \/ \E id \in Ids : GetBegin(r, id)
    \/ \E fault \in BOOLEAN : GetInspect(r, fault)
    \/ GetUpdate(r)

(* ---------------------------- handleDashboard -------------------------- *)

\* the rows of the listing the loop has something to do for
HasContainer(row) == row.ContainerID # 0

\* the loop moves to the next row with a container, or the page is rendered
DashAdvance(rec, rest) ==
    IF rest = <<>>
    THEN Respond([rec EXCEPT !.list = <<>>], StatusOK, "page")
    ELSE [rec EXCEPT !.list = rest, !.inst = Head(rest), !.pc = "h_inspect"]

\* instances, err := h.store.List()
DashBegin(r) ==
    /\ Admit(r)
    /\ SetReq(r, DashAdvance(NewReq("dashboard"),
                             SelectSeq(List, HasContainer)))
    /\ UNCHANGED <<aux, faults, store, used, proxies, direct, containers, volumes, nextId,
                   nextCid, granted, regranted>>

\* h.docker.ContainerStatus(ctx, inst.ContainerID) for the row at hand;
\* err == nil && status != inst.Status: inst.Status = status
DashInspect(r, fault) ==
    /\ Inject(fault)
    /\ At(r, "dashboard", "h_inspect")
    /\ LET res == ContainerStatus(req[r].inst.ContainerID, fault)
           rec == Call(req[r], "ContainerStatus", req[r].inst.ContainerID,
                       res.err, fault)
       IN  IF res.err = "" /\ res.status # req[r].inst.Status
           THEN SetReq(r, [rec EXCEPT !.inst.Status = res.status,
                                      !.pc = "h_update"])
           ELSE SetReq(r, DashAdvance(rec, Tail(rec.list)))
    /\ UNCHANGED <<aux, overlaps, store, used, proxies, direct, containers, volumes,
                   nextId, nextCid, granted, regranted>>

\* _ = h.store.Update(inst), then the next row
DashUpdate(r) ==
    /\ At(r, "dashboard", "h_update")
    /\ store' = Update(req[r].inst)
    /\ SetReq(r, DashAdvance(Call(req[r], "Update", req[r].inst.ContainerID,
                                  "", FALSE), Tail(req[r].list)))
    /\ UNCHANGED <<aux, overlaps, faults, used, proxies, direct, containers, volumes,
                   nextId, nextCid, granted, regranted>>

handleDashboard(r) ==
    \/ DashBegin(r)
    \/ \E fault \in BOOLEAN : DashInspect(r, fault)
    \/ DashUpdate(r)

(* --------------------------- specifications ---------------------------- *)

Step(r) ==
    \/ handleCreateInstance(r)
    \/ handleDeleteInstance(r)
    \/ handleStartInstance(r)
    \/ handleStopInstance(r)
    \/ handleRestartInstance(r)
    \/ handleInstanceStatus(r)
    \/ handleGetInstance(r)
    \/ handleDashboard(r)

\* requests are served concurrently, one goroutine each
Next == \E r \in Reqs : Step(r)

Spec == Init /\ [][Next]_vars

\* one request at a time: a single goroutine serves every request
NextSeq == Step(1)

SpecSeq == Init /\ [][NextSeq]_vars

\* one request at a time, on the instances found persisted
SpecSeqPersisted == InitPersisted /\ [][NextSeq]_vars

\* start, stop, restart and delete requests served concurrently on the
\* instances found persisted
NextLifecycle ==
    \E r \in Reqs :
        \/ handleStartInstance(r)
        \/ handleStopInstance(r)
        \/ handleRestartInstance(r)
        \/ handleDeleteInstance(r)

SpecLifecycle == InitPersisted /\ [][NextLifecycle]_vars

\* create, start and delete requests served concurrently
NextRace ==
    \E r \in Reqs :
        \/ handleCreateInstance(r)
        \/ handleStartInstance(r)
        \/ handleDeleteInstance(r)

SpecRace == Init /\ [][NextRace]_vars

\* a container is removed outside the control plane (docker rm -f)
RemovedOutside(c) ==
    /\ Exists(c)
    /\ containers' = [containers EXCEPT ![c] = NoContainer]
    /\ UNCHANGED <<aux, store, used, proxies, direct, volumes, nextId, nextCid,
                   faults, overlaps, req, returned, granted, regranted>>

\* start requests and dashboard views served one at a time on the instances
\* found persisted, whose containers may be removed outside the control plane
NextOutside ==
    \/ handleStartInstance(1)
    \/ handleDashboard(1)
    \/ \E c \in Cids : RemovedOutside(c)

SpecOutside == InitPersisted /\ [][NextOutside]_vars

\* create requests served one at a time after a start of the control plane
\* over a persisted database
NextRestarted == handleCreateInstance(1)

SpecRestarted == InitPersisted /\ [][NextRestarted]_vars

(* ------------------------ the Port Pool on its own --------------------- *)

\* the ports a caller hands to Release and MarkUsed: the ends of the range,
\* and a port outside it
PoolArgs == {PortStart, PortStart + 1, PortEnd, PortEnd + 1}

\* the lifecycle handlers, the Reverse Proxy, the browser and the watchdog
\* take no part
poolFrame == <<control, proxies, direct, cookie, visited, lastCall, localStorage,
               active, lastHad, watchdog, tree>>

ErrNoPorts == "no available ports in range"

\* PortPool.Allocate, called by one caller at a time
PoolAllocate ==
    /\ LET p == AllocateScan
       IN  IF p = 0
           THEN /\ UNCHANGED used
                /\ out' = [op |-> "Allocate", port |-> 0, err |-> ErrNoPorts,
                           before |-> used]
           ELSE /\ used' = MarkUsed(p)
                /\ out' = [op |-> "Allocate", port |-> p, err |-> "",
                           before |-> used]
    /\ UNCHANGED poolFrame

\* PortPool.Release
PoolRelease(p) ==
    /\ used' = Release(p)
    /\ out' = [op |-> "Release", port |-> p, err |-> "", before |-> used]
    /\ UNCHANGED poolFrame

\* PortPool.MarkUsed
PoolMarkUsed(p) ==
    /\ used' = MarkUsed(p)
    /\ out' = [op |-> "MarkUsed", port |-> p, err |-> "", before |-> used]
    /\ UNCHANGED poolFrame

NextPool ==
    \/ PoolAllocate
    \/ \E p \in PoolArgs : PoolRelease(p)
    \/ \E p \in PoolArgs : PoolMarkUsed(p)

\* any sequence of Allocate, Release and MarkUsed calls on a new pool
SpecPool == Init /\ [][NextPool]_vars

(* ---------------------- the Reverse Proxy on its own ------------------- *)

\* Paths and Referer values are sequences of pieces of text: "/", the word
\* "instance", an instance id, and other words.  An instance id is written
\* ToString(i).

HasPrefix(s, p) == Len(s) >= Len(p) /\ SubSeq(s, 1, Len(p)) = p

TrimPrefix(s, p) ==
    IF HasPrefix(s, p) THEN SubSeq(s, Len(p) + 1, Len(s)) ELSE s

\* strings.Index, counting from 1; 0 when sub does not occur in s
Index(s, sub) ==
    LET at == {k \in 1..(Len(s) - Len(sub) + 1) :
                  SubSeq(s, k, k + Len(sub) - 1) = sub}
    IN  IF at = {} THEN 0 ELSE Min(at)

\* strings.LastIndex
LastIndex(s, sub) ==
    LET at == {k \in 1..(Len(s) - Len(sub) + 1) :
                  SubSeq(s, k, k + Len(sub) - 1) = sub}
    IN  IF at = {} THEN 0 ELSE CHOOSE k \in at : \A j \in at : j <= k

\* the text a sequence of pieces spells
RECURSIVE Join(_)
Join(s) == IF s = <<>> THEN "" ELSE Head(s) \o Join(Tail(s))

\* the id a piece of text names, 0 when it names none
IdOf(tok) ==
    IF \E i \in Ids : ToString(i) = tok
    THEN CHOOSE i \in Ids : ToString(i) = tok
    ELSE 0

\* fmt.Sprintf("/instance/%s", instanceID)
EntryPrefix(tok) == <<"/", "instance", "/", tok>>

\* a Director whose prefix ends in a slash: fmt.Sprintf("/instance/%s/", id)
StripDirectorSlash(tok, path) ==
    IF HasPrefix(path, EntryPrefix(tok) \o <<"/">>)
    THEN LET t == TrimPrefix(path, EntryPrefix(tok) \o <<"/">>)
         IN  IF t = <<>> THEN <<"/">> ELSE t
    ELSE path

\* Register, stripProxy.Director: the path sent upstream
StripDirector(tok, path) ==
    IF HasPrefix(path, EntryPrefix(tok))
    THEN LET t == TrimPrefix(path, EntryPrefix(tok))
         IN  IF t = <<>> THEN <<"/">> ELSE t
    ELSE path

\* what a route answers: the status code, whether the request was handed to
\* the upstream, and with which path to which port
NotForwarded(code) ==
    [code |-> code, forwarded |-> FALSE, upath |-> <<>>, port |-> 0]
Forwarded(up, path, port) ==
    [code |-> IF up THEN StatusOK ELSE StatusBadGateway, forwarded |-> TRUE,
     upath |-> path, port |-> port]

\* ReverseProxy.ServeHTTP: rp.proxies[instanceID], then the strip-prefix
\* handler; up tells whether the upstream answers
ServeHTTP(tok, path, up) ==
    IF IdOf(tok) = 0 \/ proxies[IdOf(tok)] = 0
    THEN NotForwarded(StatusBadGateway)
    ELSE Forwarded(up, StripDirector(tok, path), proxies[IdOf(tok)])

\* ReverseProxy.ServeHTTPDirect: rp.direct[instanceID], then the
\* forward-as-is handler
ServeHTTPDirect(tok, path, up) ==
    IF IdOf(tok) = 0 \/ direct[IdOf(tok)] = 0
    THEN NotForwarded(StatusBadGateway)
    ELSE Forwarded(up, path, direct[IdOf(tok)])

InstanceSegment == <<"/", "instance", "/">>

\* a parser that takes the last "/instance/" of the Referer
extractInstanceIDFromRefererLast(referer) ==
    LET idx == LastIndex(referer, InstanceSegment)
        rest == SubSeq(referer, idx + Len(InstanceSegment), Len(referer))
        slashIdx == Index(rest, <<"/">>)
    IN  IF referer = <<>> \/ idx = 0 \/ slashIdx = 0 THEN ""
        ELSE Join(SubSeq(rest, 1, slashIdx - 1))

\* extractInstanceIDFromReferer
extractInstanceIDFromReferer(referer) ==
    LET idx == Index(referer, InstanceSegment)
        rest == SubSeq(referer, idx + Len(InstanceSegment), Len(referer))
        slashIdx == Index(rest, <<"/">>)
    IN  IF referer = <<>> \/ idx = 0 \/ slashIdx = 0 THEN ""
        ELSE Join(SubSeq(rest, 1, slashIdx - 1))

\* resolveInstanceID: the Referer first, then the cookie
resolveInstanceID(referer, c) ==
    IF extractInstanceIDFromReferer(referer) # ""
    THEN extractInstanceIDFromReferer(referer)
    ELSE c

\* the ids as they are written in paths
IdToks == {ToString(i) : i \in Ids}

\* what follows /instance/{id} in the path of a request on the entry route
\* (the route's pattern /instance/{id}/ lets no shorter path through)
Suffixes ==
    {<<"/">>, <<"/", "assets", "/", "app.js">>,
     <<"/", "instance", "/", "1", "/", "x">>}

\* the paths of the requests that fall through to the catch-all route
Paths == {<<"/", "assets", "/", "app.js">>}

\* Referer values, each with the id of the /instance/{id}/ segment it
\* embeds ("" when the text after its first "/instance/" spells no such
\* segment): none, a platform page, an empty id, an entry page, an entry
\* path without its final slash, and a page whose path names a second id
Referers ==
    {[text |-> <<>>, embeds |-> ""],
     [text |-> <<"http://host", "/">>, embeds |-> ""],
     [text |-> <<"http://host", "/", "instance", "/", "/", "instance", "/",
                 "1", "/">>, embeds |-> ""]}
    \cup
    {[text |-> <<"http://host">> \o EntryPrefix(t) \o <<"/">>, embeds |-> t] :
        t \in IdToks}
    \cup
    {[text |-> <<"http://host">> \o EntryPrefix(t), embeds |-> ""] :
        t \in IdToks}
    \cup
    {[text |-> <<"http://host">> \o EntryPrefix(t) \o <<"/", "x">>
                  \o EntryPrefix("1") \o <<"/">>,
      embeds |-> t] : t \in IdToks}

\* the lifecycle handlers, the Port Pool, the storage area and the watchdog
\* take no part
proxyFrame ==
    <<control, used, localStorage, active, lastHad, watchdog, tree>>

\* ReverseProxy.Register, called by a user of the Reverse Proxy
RpRegister(i, port) ==
    /\ proxies' = Register(i, port)
    /\ direct' = RegisterDirect(i, port)
    /\ lastCall' = [lastCall EXCEPT ![i] = "Register"]
    /\ out' = [op |-> "Register", id |-> ToString(i)]
    /\ UNCHANGED <<proxyFrame, cookie, visited>>

\* ReverseProxy.Unregister, called by a user of the Reverse Proxy
RpUnregister(i) ==
    /\ proxies' = Unregister(i)
    /\ direct' = UnregisterDirect(i)
    /\ lastCall' = [lastCall EXCEPT ![i] = "Unregister"]
    /\ out' = [op |-> "Unregister", id |-> ToString(i)]
    /\ UNCHANGED <<proxyFrame, cookie, visited>>

\* handleProxy: a request for /instance/{id}{suffix}; the cookie is set
\* before the request is handed to the Reverse Proxy
handleProxy(tok, suffix, up) ==
    /\ cookie' = tok
    /\ visited' = tok
    /\ LET path == EntryPrefix(tok) \o suffix
           res == ServeHTTP(tok, path, up)
       IN  out' = [op |-> "handleProxy", id |-> tok, suffix |-> suffix,
                   path |-> path, code |-> res.code,
                   forwarded |-> res.forwarded, upath |-> res.upath,
                   port |-> res.port]
    /\ UNCHANGED <<proxyFrame, proxies, direct, lastCall>>

\* handleCatchAll: a request of the browser for any other path, with a
\* Referer and the cookie the browser holds
handleCatchAll(referer, path, up) ==
    /\ LET id == resolveInstanceID(referer.text, cookie)
           res == IF id = "" THEN NotForwarded(StatusNotFound)
                  ELSE ServeHTTPDirect(id, path, up)
       IN  out' = [op |-> "handleCatchAll", id |-> id, referer |-> referer,
                   path |-> path, code |-> res.code,
                   forwarded |-> res.forwarded, upath |-> res.upath,
                   port |-> res.port]
    /\ UNCHANGED <<proxyFrame, proxies, direct, lastCall, cookie, visited>>

\* the users of the Reverse Proxy register and unregister the persisted
\* instances; the other ids are never registered
NextProxy ==
    \/ \E i \in PersistedIds, port \in PersistedPorts : RpRegister(i, port)
    \/ \E i \in PersistedIds : RpUnregister(i)
    \/ \E tok \in IdToks, suffix \in Suffixes, up \in BOOLEAN :
          handleProxy(tok, suffix, up)
    \/ \E referer \in Referers, path \in Paths, up \in BOOLEAN :
          handleCatchAll(referer, path, up)

\* one browser and the users of the Reverse Proxy, one call at a time
SpecProxy == Init /\ [][NextProxy]_vars

(* ------------------- the isolation script injection --------------------- *)
(* injectInstanceIsolation's ModifyResponse works on the bytes of the       *)
(* upstream body.  A byte is written as the character it encodes in ASCII,  *)
(* or as its hexadecimal value; the Kelvin sign U+212A takes the three      *)
(* bytes E2 84 AA and is the capital of the one-byte letter k.              *)

HeadTag == <<"<", "h", "e", "a", "d", ">">>
KelvinSign == <<"E2", "84", "AA">>

\* the fixed script block; its bytes are not looked at
Script == <<"<script>", "</script>">>

\* unicode.ToLower on a one-byte rune
LowerByte(b) ==
    CASE b = "H" -> "h" [] b = "E" -> "e" [] b = "A" -> "a" [] b = "D" -> "d"
      [] b = "X" -> "x" [] OTHER -> b

\* bytes.ToLower: the body is decoded rune by rune and each rune's lower
\* case is encoded again
RECURSIVE ToLower(_)
ToLower(s) ==
    IF s = <<>> THEN <<>>
    ELSE IF HasPrefix(s, KelvinSign)
         THEN <<"k">> \o ToLower(SubSeq(s, Len(KelvinSign) + 1, Len(s)))
         ELSE <<LowerByte(Head(s))>> \o ToLower(Tail(s))

\* the function injectInstanceIsolation returns: the body and the
\* Content-Length of the response as it is delivered (idx counts from 1,
\* 0 when the tag is not found)
ModifyResponse(ct, body) ==
    LET idx == Index(ToLower(body), HeadTag)
        insertAt == idx - 1 + Len(HeadTag)
        modified == SubSeq(body, 1, insertAt) \o Script
                        \o SubSeq(body, insertAt + 1, Len(body))
    IN  IF Index(ct, <<"text/html">>) = 0 \/ idx = 0
        THEN [body |-> body, contentLength |-> Len(body)]
        ELSE [body |-> modified, contentLength |-> Len(modified)]

\* the texts of at most n runes out of x, X and the Kelvin sign
RECURSIVE Texts(_)
Texts(n) ==
    IF n = 0 THEN {<<>>}
    ELSE Texts(n - 1) \cup
         {t \o r : t \in Texts(n - 1), r \in {<<"x">>, <<"X">>, KelvinSign}}

\* upstream bodies: a text, then a tag in some letter case or none, then a
\* text, then a second tag or none
Bodies ==
    {pre \o tag \o post \o again :
        pre \in Texts(MaxText), post \in Texts(MaxText - 1),
        tag \in {<<>>, HeadTag, <<"<", "H", "E", "A", "D", ">">>,
                 <<"<", "H", "e", "a", "d", ">">>},
        again \in {<<>>, HeadTag}}

\* Content-Type values of upstream responses, in pieces
ContentTypes ==
    {<<>>, <<"text/html">>, <<"text/html", "; charset=utf-8">>,
     <<"application/json">>, <<"application/xhtml+xml">>}

\* stripProxy.ModifyResponse on an upstream response with a known length
InjectResponse(ct, body) ==
    /\ out' = [op |-> "ModifyResponse", ct |-> ct, body |-> body,
               res |-> ModifyResponse(ct, body)]
    /\ UNCHANGED <<control, used, proxies, direct, cookie, visited, lastCall,
                   localStorage, active, lastHad, watchdog, tree>>

NextInject == \E ct \in ContentTypes, body \in Bodies : InjectResponse(ct, body)

SpecInject == Init /\ [][NextInject]_vars

(* --------------------- the storage isolation script --------------------- *)
(* One browser tab on the platform's origin.  A key of the storage area is   *)
(* a tuple of pieces, so that startsWith("_cc_store_") can be computed:      *)
(* <<"_cc_store_", id>> is the key "_cc_store_" + id.  The storage area is   *)
(* a function from the keys it holds to their values; the value of a         *)
(* snapshot key is the object JSON.stringify wrote, key -> value.            *)

\* var K = "_cc_active_inst"
K == <<"_cc_active_inst">>

\* var SK = "_cc_store_" + ID
SK(id) == <<"_cc_store_", id>>

\* isShared(n)
isShared(n) ==
    \/ n = K
    \/ Head(n) = "_cc_store_"
    \/ n \in {<<"theme">>, <<"opencode-theme-id">>, <<"opencode-color-scheme">>}
    \/ Head(n) = "opencode-theme-css-"

\* the storage area s without the keys in ks
Without(s, ks) == [n \in DOMAIN s \ ks |-> s[n]]

\* the storage area s after the native setItem(n, v)
With(s, n, v) == [m \in DOMAIN s \cup {n} |-> IF m = n THEN v ELSE s[m]]

\* the non-shared keys of s with their values
NonShared(s) == Without(s, {n \in DOMAIN s : isShared(n)})

\* sync(): the non-shared keys and values are written under SK
sync(s, id) == With(s, SK(id), NonShared(s))

\* the script's first part, and switchInstance of the dashboard page: the
\* non-shared keys are removed, the snapshot saved under SK is restored and
\* the instance is recorded as the active one
Restore(s, id) ==
    LET kept == Without(s, DOMAIN NonShared(s))
        saved == IF SK(id) \in DOMAIN s THEN s[SK(id)] ELSE <<>>
        restored == [n \in DOMAIN kept \cup DOMAIN saved |->
                        IF n \in DOMAIN saved THEN saved[n] ELSE kept[n]]
    IN  With(restored, K, id)

\* a storage call of the page of the active instance has returned
Called(op, n) ==
    /\ lastHad' = [lastHad EXCEPT ![active] = NonShared(localStorage')]
    /\ out' = [op |-> op, id |-> active, key |-> n, before |-> localStorage]
    /\ UNCHANGED <<control, used, proxies, direct, cookie, visited, lastCall,
                   active, watchdog, tree>>

\* the entry page of instance id is loaded: the injected script runs
LoadPage(id) ==
    /\ localStorage' = Restore(localStorage, id)
    /\ active' = id
    /\ out' = [op |-> "LoadPage", id |-> id, key |-> K,
               before |-> localStorage]
    /\ UNCHANGED <<control, used, proxies, direct, cookie, visited, lastCall,
                   lastHad, watchdog, tree>>

\* the patched Storage.prototype.setItem
setItem(n, v) ==
    /\ active # ""
    /\ localStorage' = IF isShared(n) THEN With(localStorage, n, v)
                       ELSE sync(With(localStorage, n, v), active)
    /\ Called("setItem", n)

\* the patched Storage.prototype.removeItem
removeItem(n) ==
    /\ active # ""
    /\ localStorage' = IF isShared(n) THEN Without(localStorage, {n})
                       ELSE sync(Without(localStorage, {n}), active)
    /\ Called("removeItem", n)

\* the patched Storage.prototype.clear
clear ==
    /\ active # ""
    /\ localStorage' = sync(<<>>, active)
    /\ Called("clear", K)

\* the proxied apps use two keys of their own and the shared key theme
NextStorage ==
    \/ \E id \in IdToks : LoadPage(id)
    \/ \E n \in {<<"k1">>, <<"k2">>, <<"theme">>}, v \in {"a", "b"} :
          setItem(n, v)
    \/ \E n \in {<<"k1">>, <<"k2">>, <<"theme">>} : removeItem(n)
    \/ clear

SpecStorage == Init /\ [][NextStorage]_vars

(* -------------------------- the prompt watchdog -------------------------- *)
(* The transform hook of the plugin.  A system prompt is its sequence of    *)
(* lines.  What the temporal patterns find in a line is given with the      *)
(* line: sig is the line with every temporal fragment taken out, trimmed    *)
(* and in lower case (temporalLineSignature), stamp the fragments taken out *)
(* ("" when no pattern matches) and residual the length of the trimmed      *)
(* rest.  Debug logging is off (CC_WATCHDOG_DEBUG_LOG is not set).          *)

Line(sig, stamp, residual) ==
    [sig |-> sig, stamp |-> stamp, residual |-> residual]

\* an analysis that takes a residual of exactly 30 characters for long
analyzeTemporalLineStrict(line) ==
    [hasTemporal |-> line.stamp # "",
     isShortLine |-> line.stamp # "" /\ line.residual < ShortResidual]

\* analyzeTemporalLine
analyzeTemporalLine(line) ==
    [hasTemporal |-> line.stamp # "",
     isShortLine |-> line.stamp # "" /\ line.residual <= ShortResidual]

\* step 1: the short temporal lines are removed
filterLines(rawLines) ==
    SelectSeq(rawLines, LAMBDA line : ~analyzeTemporalLine(line).isShortLine)

\* step 1: the signatures of removedLines (prefix "removed") and of
\* temporalAlertLines (prefix "temporal-alert") of a call of model modelID
lineSignatures(modelID, rawLines) ==
    {<<modelID,
       IF analyzeTemporalLine(rawLines[i]).isShortLine THEN "removed"
       ELSE "temporal-alert",
       rawLines[i].sig>> :
        i \in {j \in DOMAIN rawLines :
                  analyzeTemporalLine(rawLines[j]).hasTemporal}}

\* a diff that starts at the second line
diffLinesFromSecond(oldLines, newLines) ==
    {i \in 2..(IF Len(oldLines) > Len(newLines) THEN Len(oldLines)
                ELSE Len(newLines)) :
        \/ i > Len(oldLines)
        \/ i > Len(newLines)
        \/ oldLines[i] # newLines[i]}

\* diffLines: the numbers of the lines at which the two texts differ, a
\* line that only one of them has included
diffLines(oldLines, newLines) ==
    {i \in 1..(IF Len(oldLines) > Len(newLines) THEN Len(oldLines)
                ELSE Len(newLines)) :
        \/ i > Len(oldLines)
        \/ i > Len(newLines)
        \/ oldLines[i] # newLines[i]}

\* the notices keys were sent once more
Noted(keys) ==
    [k \in DOMAIN sent \cup keys |->
        IF k \notin keys THEN sent[k]
        ELSE IF k \in DOMAIN sent THEN 2 ELSE 1]

\* notifiedTemporalLines.get(modelID), as the signatures of the model
notifiedSet(modelID) ==
    IF modelID \in DOMAIN notified THEN notified[modelID] ELSE {}

\* the hook on a call of session sessionID with model modelID and the prompt
\* rawLines that no other call overlaps: steps 1 to 4.  The first call for
\* a model sends the Active notice and stores the baseline; a later call
\* reports the signatures not yet notified, sends an alert when the filtered
\* text differs from the baseline, and stores the filtered text as the
\* baseline.  A call without a session id or with an empty system array
\* returns at once
transform(sessionID, modelID, rawLines) ==
    LET filteredText == filterLines(rawLines)
        sigs == lineSignatures(modelID, rawLines)
        isFirstCallInSession == <<sessionID, modelID>> \notin firstHashMap
        isGlobalFirstForModel == modelID \notin DOMAIN baseline
        first == isGlobalFirstForModel /\ isFirstCallInSession
        prevFiltered == IF isGlobalFirstForModel THEN <<>> ELSE baseline[modelID]
        new == sigs \ notifiedSet(modelID)
        structuralDiffs ==
            IF first \/ isGlobalFirstForModel \/ prevFiltered = filteredText
            THEN {}
            ELSE diffLines(prevFiltered, filteredText)
    IN  IF sessionID = "" \/ rawLines = <<>>
        THEN /\ out' = [op |-> "transform", session |-> sessionID,
                        model |-> modelID, raw |-> rawLines,
                        prompt |-> rawLines, first |-> FALSE,
                        prev |-> rawLines, filtered |-> rawLines,
                        removedNotice |-> FALSE, alert |-> 0]
             /\ UNCHANGED <<control, used, proxies, direct, cookie, visited,
                            lastCall, localStorage, active, lastHad, watchdog,
                            tree>>
        ELSE /\ firstHashMap' = firstHashMap \cup {<<sessionID, modelID>>}
             /\ baseline' = With(baseline, modelID, filteredText)
             /\ notified' = With(notified, modelID,
                                 notifiedSet(modelID) \cup sigs)
             /\ sent' = Noted((IF first THEN {<<modelID, "active", "">>}
                               ELSE {})
                              \cup (IF first THEN sigs ELSE new))
             /\ out' = [op |-> "transform", session |-> sessionID,
                        model |-> modelID, raw |-> rawLines,
                        prompt |-> filteredText, first |-> first,
                        prev |-> prevFiltered, filtered |-> filteredText,
                        removedNotice |-> ~first /\ new # {},
                        alert |-> Cardinality(structuralDiffs)]
             /\ UNCHANGED <<control, used, proxies, direct, cookie, visited,
                            lastCall, localStorage, active, lastHad, pending,
                            tree>>

\* the body of a prompt: MaxLines lines of which the first k are changed
Body(k) == [i \in 1..MaxLines |-> IF i <= k THEN Line("b", "", 1)
                                  ELSE Line("a", "", 1)]

\* the calls of one session, and calls without a session id.  The prompt
\* of model m1 is a body changed in its first lines (none, a few, a large
\* change's worth, all) under no temporal line or one with a residual of no,
\* exactly 30, or 31 characters; model m2 has a prompt of its own
NextWatchdog ==
    \/ \E sessionID \in {"", "s1"}, k \in {0, 1, 3, LargeDiff, MaxLines},
          head \in {<<>>, <<Line("", "12:30", 0)>>,
                    <<Line("edge:", "12:30", ShortResidual)>>,
                    <<Line("long:", "12:30", ShortResidual + 1)>>} :
           transform(sessionID, "m1", head \o Body(k))
    \/ \E k \in {0, 1} : transform("s1", "m2", Body(k))

SpecWatchdog == Init /\ [][NextWatchdog]_vars

(* Calls of the hook that overlap.  The runtime is single-threaded: a call  *)
(* runs alone up to an await of send(...) and is resumed, alone again, when *)
(* the send has settled; other calls may run in between.                    *)

\* the hook of call c from step 3 (stage 3), step 3b (stage 4) or step 4
\* (stage 5) on, up to its next await or, past step 4, to its end
Proceed(c, call, stage) ==
    LET nset == notifiedSet(call.model)
        new3 == {k \in call.sigs : k[2] = "removed"} \ nset
        new3b == {k \in call.sigs : k[2] = "temporal-alert"} \ nset
        differs == /\ call.model \in DOMAIN baseline
                   /\ baseline[call.model] # call.filtered
                   /\ diffLines(baseline[call.model], call.filtered) # {}
        at == IF stage <= 3 /\ new3 # {} THEN "step3"
              ELSE IF stage <= 4 /\ new3b # {} THEN "step3b"
              ELSE IF stage <= 5 /\ differs THEN "step4"
              ELSE "end"
        new == IF at = "step3" THEN new3
               ELSE IF at = "step3b" THEN new3b ELSE {}
    IN  /\ notified' = With(notified, call.model, nset \cup new)
        /\ sent' = Noted(new)
        /\ baseline' = IF at = "end"
                       THEN With(baseline, call.model, call.filtered)
                       ELSE baseline
        /\ pending' = [pending EXCEPT
                          ![c] = IF at = "end" THEN NoCall
                                 ELSE [call EXCEPT !.pc = at]]

\* a call enters the hook and runs to its first await, or to its end
TransformEnter(c, sessionID, modelID, rawLines) ==
    /\ pending[c] = NoCall
    /\ \A d \in 1..(c - 1) : pending[d] # NoCall
    /\ LET call == [pc |-> "enter", session |-> sessionID, model |-> modelID,
                    filtered |-> filterLines(rawLines),
                    sigs |-> lineSignatures(modelID, rawLines)]
       IN  /\ firstHashMap' = firstHashMap \cup {<<sessionID, modelID>>}
           /\ IF /\ modelID \notin DOMAIN baseline
                 /\ <<sessionID, modelID>> \notin firstHashMap
              THEN /\ sent' = Noted({<<modelID, "active", "">>} \cup call.sigs)
                   /\ notified' = With(notified, modelID, notifiedSet(modelID))
                   /\ pending' = [pending EXCEPT
                                     ![c] = [call EXCEPT !.pc = "active"]]
                   /\ UNCHANGED baseline
              ELSE Proceed(c, call, 3)
    /\ UNCHANGED <<control, used, proxies, direct, cookie, visited, lastCall,
                   localStorage, active, lastHad, tree, out>>

\* the send a call awaits has settled, and the call runs on
TransformResume(c) ==
    /\ pending[c] # NoCall
    /\ LET call == pending[c]
       IN  IF call.pc = "active"
           THEN /\ notified' = With(notified, call.model,
                                    notifiedSet(call.model) \cup call.sigs)
                /\ baseline' = With(baseline, call.model, call.filtered)
                /\ pending' = [pending EXCEPT ![c] = NoCall]
                /\ UNCHANGED sent
           ELSE Proceed(c, call, CASE call.pc = "step3" -> 4
                                   [] call.pc = "step3b" -> 5
                                   [] call.pc = "step4" -> 6)
    /\ UNCHANGED <<control, used, proxies, direct, cookie, visited, lastCall,
                   localStorage, active, lastHad, tree, out, firstHashMap>>

\* the calls of two sessions with model m1, whose prompt comes with a short
\* temporal line or without, and a long one or not
NextOverlap ==
    \/ \E c \in 1..MaxCalls, sessionID \in {"s1", "s2"}, k \in {0, 1},
          head \in {<<>>, <<Line("", "12:30", 0)>>,
                    <<Line("long:", "12:30", ShortResidual + 1)>>} :
           TransformEnter(c, sessionID, "m1", head \o Body(k))
    \/ \E c \in 1..MaxCalls : TransformResume(c)

SpecOverlap == Init /\ [][NextOverlap]_vars

(* ------------------------- the notifier plug-in -------------------------- *)
(* Two texts of the plug-in are in the repository: the one the manager      *)
(* embeds and writes into every container ("embedded"), and a later one     *)
(* ("part_002").  A session is [parent, title]: parent is "none",           *)
(* "parentID" or "parent_id" (the field that names the parent), title is    *)
(* "plain", "subagent" (holds "subagent)") or "child" (starts with          *)
(* "Child session - ").                                                      *)

isChildSession(session) ==
    \/ session.parent # "none"
    \/ session.title \in {"subagent", "child"}

\* the test of the embedded text: session.parentID alone
isChildSessionEmbedded(session) == session.parent = "parentID"

\* One call of the event hook.  ev is [type, status, sessionID, questions],
\* lookup the outcome of the session lookup ("throws", "null", "found"),
\* messages the outcome of the message lookup ("ok", "throws").  The result
\* is the number of calls of send and whether the hook threw.
event(plugin, client, ev, lookup, session, messages) ==
    LET Done(n) == [sent |-> n, threw |-> FALSE]
        Threw == [sent |-> 0, threw |-> TRUE]
        found == IF client THEN lookup ELSE "null"
        child == IF plugin = "embedded" THEN isChildSessionEmbedded(session)
                 ELSE isChildSession(session)
        isIdle == \/ ev.type = "session.idle"
                  \/ /\ plugin = "part_002"
                     /\ ev.type = "session.status"
                     /\ ev.status = "idle"
        \* the guard of the other branches: a child session is skipped, a
        \* failed lookup is ignored
        skipped == /\ ev.sessionID # ""
                   /\ found = "found"
                   /\ child
    IN  IF isIdle
        THEN IF ev.sessionID = "" \/ (plugin = "embedded" /\ ~client)
             THEN Done(0)
             ELSE IF found # "found" \/ child THEN Done(0)
             ELSE IF client /\ messages = "throws" THEN Done(0)
             ELSE Done(1)
        ELSE IF ev.type = "session.error"
        THEN IF skipped THEN Done(0) ELSE Done(1)
        ELSE IF ev.type = "permission.asked"
        THEN IF plugin = "part_002" /\ skipped THEN Done(0) ELSE Done(1)
        ELSE IF ev.type = "question.asked" /\ plugin = "part_002"
        THEN IF skipped THEN Done(0)
             ELSE IF ev.questions \in {"number", "nullItem"} THEN Threw
             ELSE Done(1)
        ELSE Done(0)

NotifierEvent(plugin, client, ev, lookup, session, messages) ==
    /\ out' = [op |-> "event", plugin |-> plugin, client |-> client,
               ev |-> ev, lookup |-> lookup, session |-> session,
               messages |-> messages,
               result |-> event(plugin, client, ev, lookup, session, messages)]
    /\ UNCHANGED <<control, used, proxies, direct, cookie, visited, lastCall,
                   localStorage, active, lastHad, watchdog, tree>>

NextNotifier ==
    \E plugin \in {"embedded", "part_002"}, client \in BOOLEAN,
       type \in {"session.idle", "session.status", "session.error",
                 "permission.asked", "question.asked", "message.updated"},
       status \in {"idle", "busy"}, sessionID \in {"", "s1"},
       questions \in {"absent", "list", "number", "nullItem"},
       lookup \in {"throws", "null", "found"},
       parent \in {"none", "parentID", "parent_id"},
       title \in {"plain", "subagent", "child"},
       messages \in {"ok", "throws"} :
        \* what an event does not carry, or a failed lookup does not
        \* return, is left at one value
        /\ type # "session.status" => status = "idle"
        /\ type # "question.asked" => questions = "absent"
        /\ lookup # "found" => parent = "none" /\ title = "plain"
        /\ ~client => lookup = "null"
        /\ messages = "throws" => type = "session.idle" /\ lookup = "found"
        /\ NotifierEvent(plugin, client,
                      [type |-> type, status |-> status,
                       sessionID |-> sessionID, questions |-> questions],
                      lookup, [parent |-> parent, title |-> title], messages)

SpecNotifier == Init /\ [][NextNotifier]_vars

(* ----------------------- the configuration manager ----------------------- *)

\* entries of an instructions array of opencode.jsonc
MaxEntries == 2

\* what json.Unmarshal makes of an entry as spelled in the text
Decode(entry) == IF entry = EscapedPath THEN InstructionsPath ELSE entry

\* how often the instructions array of the text holds the path
PathCount(content) ==
    Cardinality({i \in DOMAIN content.instructions :
                    Decode(content.instructions[i]) = InstructionsPath})

\* the quick check of ensureInstruction: the quoted path occurs in the text
Referenced(content) ==
    \/ content.mention
    \/ \E i \in DOMAIN content.instructions :
           content.instructions[i] = InstructionsPath

\* the text MarshalIndent writes for the patched object
Patched(content) ==
    Jsonc("object", "array",
          [i \in DOMAIN content.instructions |->
              Decode(content.instructions[i])] \o <<InstructionsPath>>,
          FALSE, FALSE)

\* ensureInstruction without its quick check
ensureInstructionAlways(content) ==
    IF content.kind = "absent"
    THEN [jsonc |-> Patched(content), err |-> "nil"]
    ELSE IF content.kind \in {"malformed", "array"}
    THEN [jsonc |-> content, err |-> "nil"]
    ELSE IF content.kind = "null"
    THEN [jsonc |-> content, err |-> "panic"]
    ELSE [jsonc |-> Patched(content), err |-> "nil"]

\* ensureInstruction: the text it leaves and what it returns ("panic": the
\* assignment to an entry of the nil map that Unmarshal leaves for null)
ensureInstruction(content) ==
    IF Referenced(content)
    THEN [jsonc |-> content, err |-> "nil"]
    ELSE IF content.kind = "absent"
    THEN [jsonc |-> Patched(content), err |-> "nil"]
    ELSE IF content.kind \in {"malformed", "array"}
    THEN [jsonc |-> content, err |-> "nil"]
    ELSE IF content.kind = "null"
    THEN [jsonc |-> content, err |-> "panic"]
    ELSE [jsonc |-> Patched(content), err |-> "nil"]

\* the four mounts, by their path in the container
Mounts ==
    <<"/root/.config/opencode", "/root/.local/share/opencode/auth.json",
      "/root/.opencode", "/root/.agents">>

configFrame ==
    <<control, used, proxies, direct, cookie, visited, lastCall,
      localStorage, active, lastHad, watchdog>>

\* the manager starts: ensureDirs makes the directories and runs the
\* registration step.  out tells the text before this run, the text before
\* the first of the runs that nothing else interrupted, and their number.
NewManager ==
    LET r == ensureInstruction(tree.jsonc)
        again == out.op = "ensureInstruction"
    IN  /\ tree' = [tree EXCEPT !.jsonc = r.jsonc, !.dataDir = TRUE]
        /\ out' = [op |-> "ensureInstruction", before |-> tree.jsonc,
                   initial |-> IF again THEN out.initial ELSE tree.jsonc,
                   runs |-> IF again THEN 2 ELSE 1,
                   err |-> r.err]
        /\ UNCHANGED configFrame

\* handleSaveConfigFile on opencode.jsonc
SaveJsonc(content) ==
    /\ tree' = [tree EXCEPT !.jsonc = content]
    /\ out' = [op |-> "save", file |-> "opencode.jsonc"]
    /\ UNCHANGED configFrame

\* handleSaveConfigFile on opencode-data/auth.json
SaveAuth ==
    /\ tree' = [tree EXCEPT !.dataDir = TRUE, !.auth = TRUE]
    /\ out' = [op |-> "save", file |-> "auth.json"]
    /\ UNCHANGED configFrame

\* handleDeleteDirFile on opencode-data/auth.json, the one file of its
\* directory
DeleteFile ==
    /\ tree' = IF tree.auth
               THEN [tree EXCEPT !.auth = FALSE, !.dataDir = FALSE]
               ELSE tree
    /\ out' = [op |-> "DeleteFile", err |-> IF tree.auth THEN "nil" ELSE "error"]
    /\ UNCHANGED configFrame

ContainerMountsForInstance(instanceID) ==
    LET ok == tree.auth \/ tree.dataDir
    IN  /\ tree' = [tree EXCEPT !.auth = ok]
        /\ out' = [op |-> "ContainerMountsForInstance", id |-> instanceID,
                   mounts |-> IF ok THEN Mounts ELSE <<>>,
                   err |-> IF ok THEN "nil" ELSE "create auth.json"]
        /\ UNCHANGED configFrame

\* the texts saved: no file, texts that hold no object, and objects
NextConfig ==
    \/ NewManager
    \/ \E kind \in {"absent", "malformed", "null", "array", "object"},
          field \in {"absent", "other", "array"},
          n \in 0..MaxEntries,
          mention \in BOOLEAN, comments \in BOOLEAN :
        \E instructions \in [1..n -> {InstructionsPath, EscapedPath, "AGENTS.md"}] :
           /\ kind = "absent" => ~mention /\ ~comments
           /\ kind # "object" => field = "absent"
           /\ field # "array" => n = 0
           /\ SaveJsonc(Jsonc(kind, field, instructions, mention, comments))
    \/ SaveAuth
    \/ DeleteFile
    \/ \E instanceID \in Ids : ContainerMountsForInstance(instanceID)

SpecConfig == Init /\ [][NextConfig]_vars

(* ------------------------ the store, call by call ------------------------ *)

\* the UPDATE breaks the UNIQUE constraint on the name
UpdateClashes(inst) ==
    /\ store[inst.ID] # NoRow
    /\ \E i \in Ids \ {inst.ID} : store[i] # NoRow /\ store[i].Name = inst.Name

storeFrame ==
    <<used, proxies, direct, containers, volumes, nextId, nextCid, faults,
      overlaps, req, returned, granted, regranted, cookie, visited, lastCall,
      localStorage, active, lastHad, watchdog, tree>>

StoreCreate(inst) ==
    /\ store[inst.ID] = NoRow
    /\ store' = IF CreateFails(inst) THEN store ELSE Create(inst)
    /\ out' = [op |-> "Create", id |-> inst.ID, before |-> store,
               err |-> IF CreateFails(inst) THEN "insert instance" ELSE ""]
    /\ UNCHANGED storeFrame

\* Store.Update; fault: the database fails the statement
StoreUpdate(inst, fault) ==
    LET fails == fault \/ UpdateClashes(inst)
    IN  /\ store' = IF fails THEN store ELSE Update(inst)
        /\ out' = [op |-> "Update", id |-> inst.ID, before |-> store,
                   err |-> IF fails THEN "update instance" ELSE ""]
        /\ UNCHANGED storeFrame

StoreDelete(id) ==
    /\ store' = Delete(id)
    /\ out' = [op |-> "Delete", id |-> id, before |-> store, err |-> ""]
    /\ UNCHANGED storeFrame

NextStore ==
    \/ \E id \in Ids, name \in {<<"a">>, <<"b">>},
          status \in {"running", "stopped"}, fault \in BOOLEAN :
        \/ StoreCreate(Instance(id, name, 0, status, "", PortStart))
        \/ StoreUpdate(Instance(id, name, 0, status, "", PortStart), fault)
    \/ \E id \in Ids : StoreDelete(id)

SpecStore == Init /\ [][NextStore]_vars

(* ------------------- the environment of a new container ------------------ *)

\* the port the entrypoint listens on when OPENCODE_PORT is unset or empty
DefaultPort == 4096

\* the keys the operator may put into the overlay
EnvKeys == <<"OPENCODE_PORT", "GH_TOKEN">>

\* Manager.CreateContainer, the env list: OPENCODE_PORT and CC_INSTANCE_NAME
\* first, then one entry per key of the overlay (the order of the entries of
\* distinct keys is of no consequence)
ContainerEnv(inst, overlay) ==
    <<[key |-> "OPENCODE_PORT", value |-> ToString(inst.Port)],
      [key |-> "CC_INSTANCE_NAME", value |-> "a"]>>
    \o [i \in 1..Len(SelectSeq(EnvKeys, LAMBDA k : k \in DOMAIN overlay)) |->
          LET k == SelectSeq(EnvKeys, LAMBDA x : x \in DOMAIN overlay)[i]
          IN  [key |-> k, value |-> overlay[k]]]

\* the value a process of the container sees for key: the engine hands the
\* list over as it is, and of two entries of one key the runtime keeps the
\* last one, or the first one
Getenv(env, key, lastWins) ==
    LET at == {i \in DOMAIN env : env[i].key = key}
    IN  IF at = {} THEN ""
        ELSE IF lastWins THEN env[CHOOSE i \in at : \A j \in at : j <= i].value
        ELSE env[CHOOSE i \in at : \A j \in at : i <= j].value

\* entrypoint.sh: PORT="${OPENCODE_PORT:-4096}"
EntrypointPort(env, lastWins) ==
    IF Getenv(env, "OPENCODE_PORT", lastWins) = "" THEN ToString(DefaultPort)
    ELSE Getenv(env, "OPENCODE_PORT", lastWins)

\* handleSaveEnvVars: the overlay is replaced by the pairs of the form
handleSaveEnvVars(env) ==
    /\ tree' = [tree EXCEPT !.envVars = env]
    /\ out' = [op |-> "SetEnvVars"]
    /\ UNCHANGED configFrame

\* a container is created for an instance with the port p
CreateContainerEnv(p, lastWins) ==
    LET inst == Instance(1, <<"a">>, 0, "created", "", p)
        env == ContainerEnv(inst, tree.envVars)
    IN  /\ out' = [op |-> "CreateContainer", inst |-> inst, env |-> env,
                   lastWins |-> lastWins,
                   port |-> EntrypointPort(env, lastWins)]
        /\ UNCHANGED <<tree, configFrame>>

NextEnv ==
    \/ \E keys \in SUBSET {"OPENCODE_PORT", "GH_TOKEN"} :
         \E env \in [keys -> {"", "t", ToString(DefaultPort), ToString(PortStart)}] :
            handleSaveEnvVars(env)
    \/ \E p \in PortStart..(PortStart + 1), lastWins \in BOOLEAN :
          CreateContainerEnv(p, lastWins)

SpecEnv == Init /\ [][NextEnv]_vars

(* ------------------- the paths of the settings endpoints ----------------- *)
(* A path is the sequence of its segments; rootDir is absolute.              *)

rootDir == <<"data", "config">>

\* filepath.Clean, segment by segment: "." is dropped, ".." takes the
\* segment before it away, is dropped at the root of a rooted path and is
\* kept at the head of a relative one
RECURSIVE CleanFrom(_, _, _)
CleanFrom(done, rest, rooted) ==
    IF rest = <<>> THEN done
    ELSE IF Head(rest) = "." THEN CleanFrom(done, Tail(rest), rooted)
    ELSE IF Head(rest) # ".."
    THEN CleanFrom(Append(done, Head(rest)), Tail(rest), rooted)
    ELSE IF done # <<>> /\ done[Len(done)] # ".."
    THEN CleanFrom(SubSeq(done, 1, Len(done) - 1), Tail(rest), rooted)
    ELSE IF rooted THEN CleanFrom(done, Tail(rest), rooted)
    ELSE CleanFrom(Append(done, ".."), Tail(rest), rooted)

\* Manager.ReadFile, WriteFile and DeleteFile on relPath, as the handlers of
\* the settings page call them with the path submitted: the file the call
\* reads, writes or removes is filepath.Join(m.rootDir, relPath)
ManagerFile(op, relPath) ==
    /\ out' = [op |-> op, relPath |-> relPath,
               path |-> CleanFrom(<<>>, rootDir \o relPath, TRUE)]
    /\ UNCHANGED <<tree, configFrame>>

\* handleSaveDirFile: filepath.Join(config.DirOpenCodeConfig, dir, filename)
\* is the relPath handed to WriteFile
handleSaveDirFile(dir, filename) ==
    LET relPath == CleanFrom(<<>>, <<"opencode">> \o dir \o filename, FALSE)
    IN  /\ out' = [op |-> "WriteFile", dir |-> dir, filename |-> filename,
                   relPath |-> relPath,
                   path |-> CleanFrom(<<>>, rootDir \o relPath, TRUE)]
        /\ UNCHANGED <<tree, configFrame>>

NextPaths ==
    \/ \E op \in {"ReadFile", "WriteFile", "DeleteFile"}, n \in 1..MaxDepth :
         \E relPath \in [1..n -> {"..", ".", "opencode", "etc"}] :
            ManagerFile(op, relPath)
    \/ \E dir \in {<<"skills">>, <<"..">>, <<"..", "..">>, <<"..", "..", "..">>},
          filename \in {<<"x.md">>, <<"..", "x.md">>} :
            handleSaveDirFile(dir, filename)

SpecPaths == Init /\ [][NextPaths]_vars

(* -------------------------- terminal WebSocket ------------------------- *)

\* the most frames a client sends and the most chunks the exec session
\* writes in one terminal session
MaxFrames == 2
MaxChunks == 1

terminalFrame ==
    <<control, used, proxies, direct, cookie, visited, lastCall,
      localStorage, active, lastHad, watchdog, tree>>

\* one terminal session, kept in out: the handler's position (h), the
\* positions of the goroutine copying the exec's output to the client (pump)
\* and of the one reading the client's frames (drain), the two ends of the
\* WebSocket (client, conn), the exec attachment (hijacked), the frames and
\* chunks in flight
Terminal(code, h, pump, drain) ==
    [op |-> "terminal", code |-> code, h |-> h, pump |-> pump,
     drain |-> drain, client |-> "open",
     conn |-> IF h = "returned" THEN "closed" ELSE "open",
     hijacked |-> IF code = 101 /\ h = "waiting" THEN "open" ELSE "closed",
     frames |-> <<>>, framesSent |-> 0, buffered |-> 0, produced |-> 0,
     ended |-> FALSE]

InTerminal == out.op = "terminal" /\ out.code = 101

\* no goroutine of an earlier session is still running
TerminalOver ==
    out.op = "terminal" =>
        out.h = "returned" /\ out.pump = "exited" /\ out.drain = "exited"

\* handleTerminalWS up to <-done: 404 without a row, 400 without a container
\* id, a plain return (conn closed by the defer) when the upgrade, ExecCreate
\* or ExecAttach fails, else both goroutines are started
handleTerminalWS(id, fail) ==
    /\ TerminalOver
    /\ out' =
        IF Get(id) = NoRow
        THEN Terminal(StatusNotFound, "returned", "exited", "exited")
        ELSE IF Get(id).ContainerID = 0
        THEN Terminal(StatusBadRequest, "returned", "exited", "exited")
        ELSE IF fail # "none"
        THEN Terminal(0, "returned", "exited", "exited")
        ELSE Terminal(101, "waiting", "Read", "ReadMessage")
    /\ UNCHANGED terminalFrame

\* hijacked.Reader.Read in the first goroutine: blocks until the exec has
\* written a chunk, its output has ended, or the attachment has been closed
PumpRead ==
    /\ InTerminal /\ out.pump = "Read"
    /\ \/ /\ out.buffered > 0
          /\ out' = [out EXCEPT !.buffered = @ - 1, !.pump = "WriteMessage"]
       \/ /\ out.buffered = 0
          /\ out.ended \/ out.hijacked = "closed"
          /\ out' = [out EXCEPT !.pump = "exited"]
    /\ UNCHANGED terminalFrame

\* conn.WriteMessage in the first goroutine: fails once conn is closed, and
\* may fail or still be buffered once the client has gone
PumpWriteMessage ==
    /\ InTerminal /\ out.pump = "WriteMessage"
    /\ \E writeErr \in BOOLEAN :
        /\ out.conn = "closed" => writeErr
        /\ out.client = "open" /\ out.conn = "open" => ~writeErr
        /\ out' = [out EXCEPT !.pump = IF writeErr THEN "exited" ELSE "Read"]
    /\ UNCHANGED terminalFrame

\* conn.ReadMessage in the second goroutine: a resize frame goes to
\* ExecResize and the loop continues, any other frame is written to the
\* exec; on an error hijacked.CloseWrite() and return
DrainReadMessage ==
    /\ InTerminal /\ out.drain = "ReadMessage"
    /\ \/ /\ out.frames # <<>> /\ out.conn = "open"
          /\ out' = [out EXCEPT
                       !.frames = Tail(@),
                       !.drain = IF Head(out.frames) = "resize"
                                 THEN "ReadMessage" ELSE "Write"]
       \/ /\ out.conn = "closed" \/ (out.frames = <<>> /\ out.client = "closed")
          /\ out' = [out EXCEPT
                       !.drain = "exited",
                       !.hijacked = IF @ = "open" THEN "halfclosed" ELSE @]
    /\ UNCHANGED terminalFrame

\* hijacked.Conn.Write in the second goroutine: return on an error
DrainWrite ==
    /\ InTerminal /\ out.drain = "Write"
    /\ \E err \in BOOLEAN :
        /\ out.hijacked = "closed" => err
        /\ out.hijacked = "open" /\ ~out.ended => ~err
        /\ out' = [out EXCEPT !.drain = IF err THEN "exited" ELSE "ReadMessage"]
    /\ UNCHANGED terminalFrame

\* <-done, which only the first goroutine closes, then the deferred
\* hijacked.Close() and conn.Close()
TerminalReturn ==
    /\ InTerminal /\ out.h = "waiting" /\ out.pump = "exited"
    /\ out' = [out EXCEPT !.h = "returned", !.hijacked = "closed",
                          !.conn = "closed"]
    /\ UNCHANGED terminalFrame

\* the browser: sends a frame, or closes the WebSocket
ClientSends(frame) ==
    /\ InTerminal /\ out.client = "open" /\ out.conn = "open"
    /\ out.framesSent < MaxFrames
    /\ out' = [out EXCEPT !.frames = Append(@, frame), !.framesSent = @ + 1]
    /\ UNCHANGED terminalFrame

ClientCloses ==
    /\ InTerminal /\ out.client = "open"
    /\ out' = [out EXCEPT !.client = "closed"]
    /\ UNCHANGED terminalFrame

\* the engine: the shell writes a chunk, or the exec's output ends (the
\* shell has exited, or the engine has ended the stream)
ExecWrites ==
    /\ InTerminal /\ ~out.ended /\ out.hijacked # "closed"
    /\ out.produced < MaxChunks
    /\ out' = [out EXCEPT !.buffered = @ + 1, !.produced = @ + 1]
    /\ UNCHANGED terminalFrame

ExecOutputEnds ==
    /\ InTerminal /\ ~out.ended
    /\ out' = [out EXCEPT !.ended = TRUE]
    /\ UNCHANGED terminalFrame

NextTerminal ==
    \/ \E id \in Ids, fail \in {"none", "Upgrade", "ExecCreate", "ExecAttach"} :
         handleTerminalWS(id, fail)
    \/ PumpRead
    \/ PumpWriteMessage
    \/ DrainReadMessage
    \/ DrainWrite
    \/ TerminalReturn
    \/ \E frame \in {"resize", "data"} : ClientSends(frame)
    \/ ClientCloses
    \/ ExecWrites
    \/ ExecOutputEnds

\* the scheduler runs every goroutine that can take a step; neither the
\* browser nor the engine owes the handler anything
SpecTerminal ==
    /\ InitPersisted
    /\ [][NextTerminal]_vars
    /\ WF_vars(PumpRead) /\ WF_vars(PumpWriteMessage)
    /\ WF_vars(DrainReadMessage) /\ WF_vars(DrainWrite)
    /\ WF_vars(TerminalReturn)

(* ------------------------ the instanceDeleted signal -------------------- *)

\* the Referer a DELETE /instances/{id} request may carry: none, the
\* dashboard, the detail page of an instance
DeleteReferers == {"", "/", "/instances/1"}

\* the tail of handleDeleteInstance: HX-Redirect to the dashboard when the
\* Referer contains "/instances/", else the header HX-Trigger with the bare
\* event name, which gives the event no detail.id ("" here)
DeleteHeader(referer) ==
    IF referer # "" /\ referer \in {"/instances/1"}
    THEN [header |-> "HX-Redirect", value |-> "/", id |-> ""]
    ELSE [header |-> "HX-Trigger", value |-> "instanceDeleted", id |-> ""]

\* the dashboard's listener for instanceDeleted, run on the response to the
\* deletion of instance id: with a detail.id the snapshot of that instance
\* and the marker naming it are removed (the dashboard's own Storage is not
\* patched), then the page is reloaded; after an HX-Redirect the browser
\* navigates to the dashboard and the listener does not run
instanceDeleted(id, referer) ==
    LET h == DeleteHeader(referer)
        marked == K \in DOMAIN localStorage /\ localStorage[K] = h.id
    IN  /\ localStorage' =
              IF h.header = "HX-Trigger" /\ h.id # ""
              THEN Without(localStorage,
                           {SK(h.id)} \cup (IF marked THEN {K} ELSE {}))
              ELSE localStorage
        /\ out' = [op |-> "instanceDeleted", id |-> id, key |-> SK(id),
                   before |-> localStorage, header |-> h.header]
        /\ UNCHANGED <<control, used, proxies, direct, cookie, visited,
                       lastCall, active, lastHad, watchdog, tree>>

NextDeleted ==
    \/ \E id \in IdToks : LoadPage(id)
    \/ \E n \in {<<"k1">>, <<"theme">>}, v \in {"a", "b"} : setItem(n, v)
    \/ \E n \in {<<"k1">>, <<"theme">>} : removeItem(n)
    \/ clear
    \/ \E id \in IdToks, referer \in DeleteReferers : instanceDeleted(id, referer)

SpecDeleted == Init /\ [][NextDeleted]_vars

(* --------------------------- the properties ---------------------------- *)

\* the request that returned in the last step was of this kind
Returned(kind) == returned.kind = kind /\ returned.pc = "done"

\* ... and had found its instance in the Store
ReturnedOn(kind) == Returned(kind) /\ returned.got # NoInst

\* the persisted record of the instance the returned request was about
Row == store[returned.inst.ID]

\* no call of the returned request failed for a reason of the engine's own
EngineHealthy ==
    \A k \in 1..Len(returned.calls) : ~returned.calls[k].fault

\* C1: of two create requests carrying the same trimmed name, issued one
\* after the other or concurrently, the one that does not create the
\* instance is answered 409 Conflict, and no two persisted instances share
\* a Name.
C1_DuplicateNameConflict ==
    /\ \A i, j \in Ids :
          i # j /\ store[i] # NoRow /\ store[j] # NoRow
             => store[i].Name # store[j].Name
    /\ Returned("create") /\ returned.got = NoInst
          /\ GetByName(returned.name)
          => returned.code = StatusConflict

\* C2: no two Allocate calls that both succeed return the same port unless
\* the port was released in between.
C2_NoDoubleAllocation == regranted = {}

\* C3: when a create request passes validation and the container is
\* created, then at the end of the request the persisted record is running
\* with the id of the created container, and the instance is registered
\* with the Reverse Proxy on its allocated port.
C3_CreateSuccess ==
    Returned("create") /\ returned.calls # <<>> /\ returned.calls[1].err = ""
       => /\ Row # NoRow
          /\ Row.Status = "running"
          /\ Row.ContainerID = returned.calls[1].cid
          /\ Row.ContainerID # 0
          /\ containers[Row.ContainerID].inst = Row.ID
          /\ Row.Port = returned.port
          /\ proxies[Row.ID] = returned.port

C3_Witness ==
    /\ Returned("create")
    /\ returned.calls # <<>>
    /\ returned.calls[1].err = ""
    /\ returned.code = StatusCreated

\* C4: when container creation fails during create, the record stays
\* persisted with Status=error and ErrorMsg the failure text, and its port
\* stays marked used; and a later Start served by a healthy engine creates
\* the container and brings the instance to running.
C4_FailedCreateRetry ==
    /\ Returned("create") /\ returned.calls # <<>>
          /\ returned.calls[1].err # ""
          => /\ Row # NoRow
             /\ Row.Status = "error"
             /\ Row.ErrorMsg = returned.calls[1].err
             /\ Row.Port \in used
    /\ ReturnedOn("start") /\ returned.got.Status = "error"
          /\ returned.got.ContainerID = 0 /\ EngineHealthy
          => /\ Row.Status = "running"
             /\ Row.ContainerID # 0
             /\ containers[Row.ContainerID].state = "running"

\* C5: after a delete of an existing instance has returned successfully,
\* whether or not the removal of the container succeeded, the Store has no
\* row of the id, no proxy registration exists for it, and its port is free
\* in the Port Pool.
C5_DeleteClears ==
    ReturnedOn("delete") /\ returned.code = StatusOK
       => /\ Get(returned.got.ID) = NoRow
          /\ ~IsRegistered(returned.got.ID)
          /\ returned.got.Port \notin used

C5_Witness ==
    /\ ReturnedOn("delete")
    /\ returned.code = StatusOK
    /\ returned.calls # <<>>
    /\ returned.calls[1].err # ""
    /\ IsRegistered(returned.got.ID) = FALSE
    /\ returned.got.Status = "running"

\* C6: after a delete of an instance that has a container, served by a
\* healthy engine, the volume cloudcode-home-{id} no longer exists; stop and
\* restart leave it in place.
C6_DeleteRemovesVolume ==
    /\ ReturnedOn("delete") /\ returned.got.ContainerID # 0
          /\ EngineHealthy
          => returned.got.ID \notin volumes
    /\ (ReturnedOn("stop") \/ ReturnedOn("restart"))
          /\ returned.got.ContainerID # 0
          => returned.got.ID \in volumes

\* C7: a Start on an existing instance creates a container when no
\* ContainerID is recorded and otherwise starts the recorded container; when
\* that call succeeds the persisted record is running with an empty ErrorMsg
\* and a ContainerID, and the instance is registered with the Reverse Proxy.
C7_StartSuccess ==
    ReturnedOn("start")
       => /\ Len(returned.calls) = 1
          /\ returned.got.ContainerID = 0
                => returned.calls[1].op = "CreateContainer"
          /\ returned.got.ContainerID # 0
                => /\ returned.calls[1].op = "StartContainer"
                   /\ returned.calls[1].cid = returned.got.ContainerID
          /\ returned.calls[1].err = ""
                => /\ Row.Status = "running"
                   /\ Row.ErrorMsg = ""
                   /\ Row.ContainerID # 0
                   /\ Row.ContainerID = returned.calls[1].cid
                   /\ containers[Row.ContainerID].state = "running"
                   /\ proxies[Row.ID] = Row.Port

C7_Witness ==
    /\ ReturnedOn("start")
    /\ returned.got.Status = "error"
    /\ returned.got.ErrorMsg # ""
    /\ returned.calls[1].err = ""

\* the engine call whose failure a lifecycle request reports: the only call
\* of create, start and stop, the start step of restart
Reported ==
    IF Returned("restart") THEN 2 ELSE 1

\* C8: whenever the engine call of a lifecycle transition (create, start,
\* stop, the start step of restart) fails, then after the request the
\* persisted record has Status=error and ErrorMsg the failure text.
C8_EngineFailureRecorded ==
    returned.kind \in {"create", "start", "stop", "restart"}
       /\ returned.pc = "done"
       /\ Len(returned.calls) >= Reported
       /\ returned.calls[Reported].err # ""
       => /\ Row.Status = "error"
          /\ Row.ErrorMsg = returned.calls[Reported].err

\* C9: after a successful Stop the persisted record is stopped and the
\* instance is not registered, while ContainerID, Port and Name are as
\* before and the port is still marked used.
C9_StopFrame ==
    ReturnedOn("stop") /\ returned.frag = "row"
       => /\ Row.Status = "stopped"
          /\ ~IsRegistered(Row.ID)
          /\ Row.ContainerID = returned.got.ContainerID
          /\ Row.Port = returned.got.Port
          /\ Row.Name = returned.got.Name
          /\ Row.Port \in used

C9_Witness ==
    /\ ReturnedOn("stop")
    /\ returned.frag = "row"
    /\ returned.got.Status = "running"
    /\ returned.got.ContainerID # 0
    /\ containers[returned.got.ContainerID].state = "exited"

StatusValues == {"created", "running", "stopped", "error", "removed", "unknown"}

\* C11: in every reachable state, also after a re-sync of the status from
\* the container engine (dashboard, detail view, status endpoint), the
\* persisted Status of every instance is one of created, running, stopped,
\* error, removed, unknown.
C11_StatusVocabulary ==
    \A i \in Ids : store[i] # NoRow => store[i].Status \in StatusValues

\* C12: a Reverse-Proxy registration exists only while its instance is
\* registered as reachable: when a stop or a delete of an instance has
\* completed, no registration exists for its id (until a later start),
\* however the start, stop, restart and delete requests on that instance
\* interleave.
C12_NoRegistrationAfterStopOrDelete ==
    \/ ReturnedOn("stop") /\ returned.frag = "row"
    \/ ReturnedOn("delete") /\ returned.code = StatusOK
    => ~IsRegistered(returned.got.ID)

\* no request has been served since the Handler was built
Fresh == returned = IdleReq /\ \A r \in Reqs : Free(r)

C14_AllocateLowestFree ==
    out.op = "Allocate" =>
       IF Cardinality(out.before \cap Ports) = 101
       THEN /\ out.err # ""
            /\ out.port = 0
            /\ used = out.before
       ELSE /\ out.err = ""
            /\ out.port \in Ports \ out.before
            /\ \A q \in Ports : q < out.port => q \in out.before
            /\ used = out.before \cup {out.port}

C14_Witness ==
    /\ out.op = "Allocate"
    /\ out.err # ""
    /\ PortEnd + 1 \notin used

\* the id the last request was routed by was not registered when the
\* request was served: its last call was Unregister, or it was never
\* registered
NotRegistered(tok) ==
    IdOf(tok) = 0 \/ lastCall[IdOf(tok)] # "Register"

\* C15: after Unregister(id) and until the next Register(id), every request
\* served by ServeHTTP and by ServeHTTPDirect for that id is answered 502
\* and nothing is forwarded upstream; the same holds for an id that was
\* never registered.
C15_UnregisteredAnswers502 ==
    out.op \in {"handleProxy", "handleCatchAll"}
       /\ out.id # "" /\ NotRegistered(out.id)
       => out.code = StatusBadGateway /\ ~out.forwarded

C15_Witness ==
    /\ out.op = "handleCatchAll"
    /\ out.id = "1"
    /\ lastCall[1] = "Unregister"
    /\ visited = "2"
    /\ out.code = StatusBadGateway

\* C16: a catch-all request is routed by the id of the /instance/{id}/
\* segment of its Referer if there is one, otherwise by the id in the cookie
\* _cc_inst, which always names the entry path visited last; when neither
\* yields an id the answer is 404, otherwise the path is forwarded as it is
\* to the forward-as-is handler of that instance.
C16_CatchAllRouting ==
    /\ cookie = visited
    /\ out.op = "handleCatchAll" =>
          LET want == IF out.referer.embeds # "" THEN out.referer.embeds
                      ELSE visited
          IN  /\ out.id = want
              /\ want = "" => out.code = StatusNotFound /\ ~out.forwarded
              /\ want # "" /\ ~NotRegistered(want)
                    => /\ out.forwarded
                       /\ out.upath = out.path
                       /\ out.port = direct[IdOf(want)]

C16_Witness ==
    /\ out.op = "handleCatchAll"
    /\ out.referer.text # <<>>
    /\ out.referer.embeds = ""
    /\ visited = "1"
    /\ out.forwarded
    /\ out.upath = out.path
    /\ out.code = StatusBadGateway

\* C17: after Register(id, port), every request on the entry route whose
\* path is /instance/{id} followed by a suffix is forwarded upstream, to
\* that port, with exactly the suffix as its path.
C17_EntryRouteStripsPrefix ==
    out.op = "handleProxy" /\ ~NotRegistered(out.id)
       => /\ out.path = EntryPrefix(out.id) \o out.suffix
          /\ out.forwarded
          /\ out.upath = out.suffix
          /\ out.port = proxies[IdOf(out.id)]

C17_Witness ==
    /\ out.op = "handleProxy"
    /\ out.id = "1"
    /\ out.forwarded
    /\ out.suffix = <<"/", "instance", "/", "1", "/", "x">>
    /\ out.upath = out.suffix

\* C18: an upstream response on the strip-prefix route whose content type
\* contains text/html and whose body contains <head> in any letter case is
\* delivered with the script block inserted once, right after the first such
\* occurrence, every other byte unchanged and Content-Length the new length;
\* every other response is delivered byte for byte.
C18_InjectAfterFirstHead ==
    out.op = "ModifyResponse" =>
        LET body == out.body
            at == {k \in 1..(Len(body) - Len(HeadTag) + 1) :
                      \A j \in 1..Len(HeadTag) :
                          LowerByte(body[k + j - 1]) = HeadTag[j]}
        IN  IF Index(out.ct, <<"text/html">>) # 0 /\ at # {}
            THEN /\ out.res.body =
                        SubSeq(body, 1, Min(at) + Len(HeadTag) - 1) \o Script
                            \o SubSeq(body, Min(at) + Len(HeadTag), Len(body))
                 /\ out.res.contentLength = Len(body) + Len(Script)
            ELSE /\ out.res.body = body
                 /\ out.res.contentLength = Len(body)

\* C19: loading the entry page of an instance leaves exactly the non-shared
\* keys and values the instance last had, and no storage call made while
\* another instance is active changes the instance's saved snapshot.
C19_StorageIsolation ==
    /\ out.op = "LoadPage" => NonShared(localStorage) = lastHad[out.id]
    /\ out.op \in {"setItem", "removeItem", "clear"} =>
          \A a \in IdToks \ {out.id} :
              /\ (SK(a) \in DOMAIN out.before) = (SK(a) \in DOMAIN localStorage)
              /\ SK(a) \in DOMAIN localStorage =>
                    localStorage[SK(a)] = out.before[SK(a)]

\* C20: when the filtered prompt differs from the stored baseline by 10 or
\* more lines, no alert is sent and the baseline is left as it was (so that
\* later prompts are still compared with that baseline).
C20_LargeChangeKeepsBaseline ==
    (/\ out.op = "transform"
     /\ ~out.first
     /\ Cardinality(diffLines(out.prev, out.filtered)) >= LargeDiff)
        => /\ out.alert = 0
           /\ baseline[out.model] = out.prev

\* C21: when the filtered prompt differs from the stored baseline by at
\* least one and fewer than 10 lines, the baseline is replaced with the new
\* filtered text and one structural alert, reporting those lines, is sent; a
\* filtered prompt identical to the baseline sends no alert.
C21_SmallChangeAlertsAndReplaces ==
    (out.op = "transform" /\ ~out.first) =>
        LET longest == IF Len(out.prev) > Len(out.filtered) THEN Len(out.prev)
                       ELSE Len(out.filtered)
            n == Cardinality({i \in 1..longest :
                                \/ i > Len(out.prev)
                                \/ i > Len(out.filtered)
                                \/ out.prev[i] # out.filtered[i]})
        IN  /\ (n >= 1 /\ n < LargeDiff) =>
                   /\ out.alert = n
                   /\ baseline[out.model] = out.filtered
            /\ n = 0 => out.alert = 0

C21_Witness ==
    /\ out.op = "transform"
    /\ ~out.first
    /\ out.session = "s1"
    /\ out.alert = 3
    /\ out.prev # out.filtered
    /\ baseline[out.model] = out.filtered

C22_SignatureNotifiedOnce ==
    \A k \in DOMAIN sent : k[2] # "active" => sent[k] <= 1

\* C23: for each agent identity exactly one Active notice is ever sent, on
\* the first transform call seen for it, whatever the sequence or
\* interleaving of the calls of one or several sessions.
C23_OneActiveNotice ==
    \A key \in firstHashMap :
        /\ <<key[2], "active", "">> \in DOMAIN sent
        /\ sent[<<key[2], "active", "">>] = 1

\* C25: a session-idle event for a top-level session (no parent id, plain
\* title) sends exactly one completion notice, and one for a session that is
\* a child by its parent id or by its title sends none (the lookups of the
\* session and of its messages succeeding).
C25_IdleNoticeOnlyForTopLevel ==
    (/\ out.op = "event"
     /\ out.ev.type = "session.idle"
     /\ out.ev.sessionID # ""
     /\ out.client
     /\ out.lookup = "found"
     /\ out.messages = "ok")
        => out.result.sent = (IF out.session.parent = "none"
                                 /\ out.session.title = "plain"
                              THEN 1 ELSE 0)

\* C26: no call of a hook of the plug-ins lets an exception through to the
\* runtime, whatever the event, the session and the outcome of the send.
C26_NoHookThrows ==
    out.op = "event" => ~out.result.threw

\* the texts the registration step is meant for: no file or an empty one, or
\* an object that does not mention the path at all, or lists it once, as
\* MarshalIndent spells it, in its instructions array
Patchable(content) ==
    \/ content.kind = "absent"
    \/ /\ content.kind = "object"
       /\ \/ ~Referenced(content) /\ PathCount(content) = 0
          \/ /\ PathCount(content) = 1
             /\ \E i \in DOMAIN content.instructions :
                    content.instructions[i] = InstructionsPath

C28_UnparsableLeftAlone ==
    (out.op = "ensureInstruction"
        /\ out.before.kind \in {"malformed", "null", "array"})
        => out.err = "nil" /\ tree.jsonc = out.before

\* C29: in every state of the configuration tree, for every instance id,
\* ContainerMountsForInstance leaves auth.json in place and returns the same
\* four mounts.
C29_AlwaysFourMounts ==
    out.op = "ContainerMountsForInstance"
        => out.err = "nil" /\ out.mounts = Mounts /\ tree.auth

\* C30: Store.Update on an id that no row has fails with a storage error
\* and leaves the store as it was.
C30_UpdateOfMissingFails ==
    (out.op = "Update" /\ out.before[out.id] = NoRow)
        => out.err # "" /\ store = out.before

\* C31: when two Start requests, or a Create and a Start, overlap on one
\* instance and the engine is healthy, then once both have returned the
\* persisted ContainerID names the container the instance has, and the
\* running status of that container is the recorded one.
C31_RacesOnOneInstanceSafe ==
    (faults = 0 /\ \A r \in Reqs : Free(r))
        => \A i \in Ids, c \in Cids :
              (store[i] # NoRow /\ Exists(c) /\ containers[c].inst = i)
                  => /\ store[i].ContainerID = c
                     /\ containers[c].state = "running"
                            => store[i].Status = "running"

\* C32: whenever no request is in flight, after any sequence of create and
\* delete requests, failed Store and engine calls included, no two persisted
\* instances have the same Port and the Port of every persisted instance is
\* marked used in the Port Pool.
C32_PersistedPortsDistinctAndUsed ==
    (\A r \in Reqs : Free(r))
        => /\ \A i \in Ids : store[i] # NoRow => store[i].Port \in used
           /\ \A i, j \in Ids :
                 (i # j /\ store[i] # NoRow /\ store[j] # NoRow)
                     => store[i].Port # store[j].Port

\* C33: in every reachable state a persisted instance with Status=running
\* has a ContainerID: an instance without a container is never recorded as
\* running, whatever create, start, stop and restart requests were served.
C33_RunningHasContainer ==
    \A i \in Ids :
        (store[i] # NoRow /\ store[i].Status = "running")
            => store[i].ContainerID # 0

\* C34: when a delete of an instance overlaps a create or a start of it and
\* the engine is healthy, then once both have returned no container of the
\* deleted instance exists.  (The create or start returns and finds its row
\* gone: a delete was served meanwhile.)
C34_DeleteLeavesNoContainer ==
    (/\ faults = 0
     /\ ReturnedOn("create") \/ ReturnedOn("start")
     /\ returned.got # NoInst
     /\ Get(returned.inst.ID) = NoRow
     /\ \A r \in Reqs : Free(r))
        => ~NameInUse(returned.inst.ID)

\* C35: a Start of an existing instance served by a healthy engine ends with
\* Status=running and a running container, whatever the persisted state
\* was, also after the container was removed outside the control plane.
C35_StartAlwaysRuns ==
    (ReturnedOn("start") /\ faults = 0)
        => /\ Row.Status = "running"
           /\ Row.ContainerID # 0
           /\ Exists(Row.ContainerID)
           /\ containers[Row.ContainerID].state = "running"

\* C36: for every container created, the value of OPENCODE_PORT that takes
\* effect in it is the Port of the instance, whatever the keys of the global
\* environment overlay.
C36_PortEnvIsAllocatedPort ==
    out.op = "CreateContainer" => out.port = ToString(out.inst.Port)

\* C37: a view of the detail page of an instance with a container writes to
\* the Store only if the status the engine reports differs from the
\* persisted one; otherwise the record is not written at all.
C37_DetailViewWritesOnChange ==
    (ReturnedOn("get") /\ returned.got.ContainerID # 0
        /\ \E i \in DOMAIN returned.calls : returned.calls[i].op = "Update")
        => returned.inst.Status # returned.got.Status

\* C38: every file that ReadFile, WriteFile and DeleteFile, and through them
\* the endpoints of the settings page, read, write or remove lies inside the
\* configuration root directory, for any path, directory or filename
\* submitted.
C38_FilesInsideRoot ==
    out.op \in {"ReadFile", "WriteFile", "DeleteFile"}
        => HasPrefix(out.path, rootDir)

\* C39: once the client has closed a terminal session or the exec's output
\* has ended, the handler returns, the attachment is closed and both
\* goroutines have exited
C39_TerminalSessionEnds ==
    (InTerminal /\ (out.client = "closed" \/ out.ended))
        ~> (InTerminal /\ out.h = "returned" /\ out.hijacked = "closed"
              /\ out.pump = "exited" /\ out.drain = "exited")

\* C40: when the dashboard has reloaded on the instanceDeleted signal for an
\* instance, the snapshot of that instance is gone from localStorage, and so
\* is the active-instance marker if it named that instance
C40_DeletedSnapshotEvicted ==
    out.op = "instanceDeleted" /\ out.header = "HX-Trigger" =>
        /\ SK(out.id) \notin DOMAIN localStorage
        /\ (K \in DOMAIN out.before /\ out.before[K] = out.id)
               => K \notin DOMAIN localStorage

====
